---- MODULE Spec2Model ----
(***************************************************************************)
(* Model of the quota decision and scheduling engine of                    *)
(* openclaw-rate-limit-manager: RateLimitManager (index.js), WindowTracker *)
(* (tracker.js), RequestQueue (queue.js) and the parts of LimitStorage     *)
(* (storage.js) and the licence handler they use.                          *)
(*                                                                         *)
(* The hooks are JavaScript async functions.  Every `await` is a           *)
(* suspension point; the synchronous code between two suspension points    *)
(* runs atomically.  Each such block is an operator from states to states, *)
(* and pc[p] names the block invocation p resumes in.  Under Spec and      *)
(* SpecMulti the host awaits each hook, so a whole hook is one step (Run); *)
(* under SpecConc two beforeProvider invocations interleave at their       *)
(* suspension points, one block per step (Resume).                         *)
(* SpecPreFault and SpecPostFault let one store call throw in each         *)
(* beforeProvider, respectively afterProvider; SpecOpenai, SpecProviders   *)
(* and SpecUnknown vary the provider the host names.                       *)
(*                                                                         *)
(* SQL NULL and JavaScript null/undefined are written 0: the source tests  *)
(* limits and paid_until by truthiness, which treats 0 and NULL alike.     *)
(* Times are counted in units of 100 ms.                                   *)
(***************************************************************************)
EXTENDS Integers, Sequences, FiniteSets, TLC

\* ------------------------------------------------------------------ bounds
\* hook calls and clock moves of one run
MaxCalls == 3
MaxConcCalls == 2
MaxTicks == 1
MaxConcTicks == 1
MaxMultiCalls == 4
MaxMultiTicks == 1
MaxFaultCalls == 2
MaxFaultTicks == 1
MaxProviderCalls == 3
MaxProviderTicks == 1
MaxSessionCalls == 4
MaxSessionTicks == 1
MaxPatternCalls == 3
MaxPatternTicks == 1
MaxConfigCalls == 2
MaxConfigTicks == 1
MaxBurstCalls == 4
MaxBurstTicks == 2
MaxDrainCalls == 2
MaxDrainTicks == 1
MaxDrainQueue == 6
MaxDrainsTicks == 1
MaxRetryCalls == 2
MaxRetryTicks == 1
MaxEnqueueCalls == 2
MaxEnqueueTicks == 1
MaxPostCalls == 2
MaxPostTicks == 1
MaxDrainsQueue == 2
\* configured ceilings (rate_limit_configs) and the pro queue size
\* (agent_limit_quotas.max_queue_size), scaled down
RpmLimit == 1
SharedRpmLimit == 2
RpdLimit == 1
TpmLimit == 4
QueueCap == 1

\* --------------------------------------------------------- program constants
\* durations in clock units of 100 ms (a month of milliseconds exceeds the
\* model checker's integers)
per_minute == 600
per_hour == 36000
per_day == 864000
maxQueueAge == 18000
defaultPriority == 5
defaultMaxRetries == 3
DrainBound == 5
LicenseMs == 25920000
UnitsPerSecond == 10

Agents == {"a1", "a2"}
Provider == "anthropic"
Model == "m1"
NullModel == "NULL"
Priorities == {0, 8}
TokenInputs == {0, 4}
TickSteps == {per_minute, maxQueueAge, per_hour, LicenseMs}
Procs == {1, 2}
\* the pattern kinds of the detector, and the events it asks for
PatternTypes == {"time_of_day", "day_of_week", "burst"}
minEventsForPattern == 10
\* providers a host may name: two of the built-in table, and one that is
\* neither there nor configured
Providers == {"anthropic", "openai"}
UnknownProvider == "mistral"
\* store calls that may throw
StoreFaults == {"getLimits", "createWindow", "updateWindowCounts", "updateTokenCount",
                "recordEvent", "complete", "checkQuotaAvailable"}

\* ------------------------------------------------------------ pure helpers
Min(a, b) == IF a < b THEN a ELSE b

windowTypes == <<"per_minute", "per_hour", "per_day">>

windowDurations(wt) ==
  CASE wt = "per_minute" -> per_minute
    [] wt = "per_hour" -> per_hour
    [] wt = "per_day" -> per_day

\* a window that is over as soon as it has begun
calculateWindowEndAtStart(start, wt) == start

calculateWindowEnd(start, wt) == start + windowDurations(wt)

\* agent_limit_quotas row written by getQuota for an unknown wallet
initializeQuota ==
  [exists |-> TRUE, tier |-> "free", can_queue |-> FALSE, max_queue_size |-> 0,
   auto_learning |-> FALSE, paid_until |-> 0]

NoQuota ==
  [exists |-> FALSE, tier |-> "free", can_queue |-> FALSE, max_queue_size |-> 0,
   auto_learning |-> FALSE, paid_until |-> 0]

\* the quota table after getQuota(a): the row is created on first reference
getQuota(qs, a) ==
  IF qs[a].exists THEN qs ELSE [qs EXCEPT ![a] = initializeQuota]

\* checkQuotaAvailable trusting the stored tier, whatever paid_until says
checkQuotaAvailableNoExpiry(qs, a, t) ==
  LET q == getQuota(qs, a)[a]
      isPro == q.tier = "pro"
  IN [tier |-> IF isPro THEN "pro" ELSE "free",
      can_queue |-> isPro /\ q.can_queue,
      max_queue_size |-> IF isPro THEN q.max_queue_size ELSE 0,
      auto_learning |-> isPro /\ q.auto_learning]

\* the record checkQuotaAvailable(a) returns at time t, on the table after getQuota
checkQuotaAvailable(qs, a, t) ==
  LET q == getQuota(qs, a)[a]
      isPro == q.tier = "pro" /\ q.paid_until # 0 /\ q.paid_until > t
  IN [tier |-> IF isPro THEN "pro" ELSE "free",
      can_queue |-> isPro /\ q.can_queue,
      max_queue_size |-> IF isPro THEN q.max_queue_size ELSE 0,
      auto_learning |-> isPro /\ q.auto_learning]

\* the providers of getDefaultLimits' table
DefaultProviders == {"anthropic", "openai", "google"}

NoLimits == [rpm |-> 0, rph |-> 0, rpd |-> 0, tpm |-> 0, tpd |-> 0]

\* the table without its last resort: no ceilings for what it does not list
getDefaultLimitsNoFallback(provider, tier) ==
  CASE provider = "anthropic" /\ tier = "pro" ->
         [rpm |-> 1000, rph |-> 0, rpd |-> 10000, tpm |-> 80000, tpd |-> 2500000]
    [] provider = "anthropic" /\ tier = "free" ->
         [rpm |-> 50, rph |-> 0, rpd |-> 1000, tpm |-> 40000, tpd |-> 300000]
    [] OTHER -> NoLimits

getDefaultLimits(provider, tier) ==
  CASE provider = "anthropic" /\ tier = "pro" ->
         [rpm |-> 1000, rph |-> 0, rpd |-> 10000, tpm |-> 80000, tpd |-> 2500000]
    [] provider = "openai" /\ tier = "free" ->
         [rpm |-> 60, rph |-> 0, rpd |-> 200, tpm |-> 40000, tpd |-> 0]
    [] provider = "openai" /\ tier = "pro" ->
         [rpm |-> 500, rph |-> 0, rpd |-> 10000, tpm |-> 150000, tpd |-> 0]
    [] provider = "google" /\ tier = "free" ->
         [rpm |-> 60, rph |-> 0, rpd |-> 1500, tpm |-> 0, tpd |-> 0]
    [] provider = "google" /\ tier = "pro" ->
         [rpm |-> 1000, rph |-> 0, rpd |-> 15000, tpm |-> 0, tpd |-> 0]
    [] OTHER ->
         [rpm |-> 50, rph |-> 0, rpd |-> 1000, tpm |-> 40000, tpd |-> 300000]

getLimitsWideFirst(cfg, provider, model, tier) ==
  LET exact == {c \in cfg : c.provider = provider /\ c.model = model /\ c.tier = tier}
      wide == {c \in cfg : c.provider = provider /\ c.model = NullModel /\ c.tier = tier}
  IN IF wide # {} THEN (CHOOSE c \in wide : TRUE).lim
     ELSE IF model # NullModel /\ exact # {} THEN (CHOOSE c \in exact : TRUE).lim
     ELSE getDefaultLimits(provider, tier)

\* rate_limit_configs rows are [provider, model, tier, lim]; NullModel is a NULL model
getLimits(cfg, provider, model, tier) ==
  LET exact == {c \in cfg : c.provider = provider /\ c.model = model /\ c.tier = tier}
      wide == {c \in cfg : c.provider = provider /\ c.model = NullModel /\ c.tier = tier}
  IN IF model # NullModel /\ exact # {} THEN (CHOOSE c \in exact : TRUE).lim
     ELSE IF wide # {} THEN (CHOOSE c \in wide : TRUE).lim
     ELSE getDefaultLimits(provider, tier)

getLimitForWindowType(limits, wt, limitType) ==
  CASE wt = "per_minute" -> IF limitType = "requests" THEN limits.rpm ELSE limits.tpm
    [] wt = "per_hour" -> IF limitType = "requests" THEN limits.rph ELSE 0
    [] wt = "per_day" -> IF limitType = "requests" THEN limits.rpd ELSE limits.tpd

\* the comparison off by one: a window is exceeded only above its ceiling
checkWindowLimitDetailedStrict(w) ==
  LET requestExceeded == w.limit_requests # 0 /\ w.request_count > w.limit_requests
      tokenExceeded == w.limit_tokens # 0 /\ w.token_count > w.limit_tokens
  IN [exceeded |-> requestExceeded \/ tokenExceeded,
      current |-> w.request_count,
      limit |-> w.limit_requests]

checkWindowLimitDetailed(w) ==
  LET requestExceeded == w.limit_requests # 0 /\ w.request_count >= w.limit_requests
      tokenExceeded == w.limit_tokens # 0 /\ w.token_count >= w.limit_tokens
  IN [exceeded |-> requestExceeded \/ tokenExceeded,
      current |-> w.request_count,
      limit |-> w.limit_requests]

\* ids of the active rows of one (wallet, provider, model, window type)
ActiveIds(ws, a, provider, model, wt) ==
  {i \in 1..Len(ws) : /\ ws[i].agent_wallet = a
                      /\ ws[i].provider = provider
                      /\ ws[i].model = model
                      /\ ws[i].window_type = wt
                      /\ ws[i].is_active}

\* SELECT ... WHERE is_active = 1 ORDER BY window_start DESC LIMIT 1; 0 when no row.
\* Rows with equal window_start cannot coexist (UNIQUE key), so the pick is unique.
SelectActiveWindow(ws, a, provider, model, wt) ==
  LET ids == ActiveIds(ws, a, provider, model, wt)
  IN IF ids = {} THEN 0
     ELSE CHOOSE i \in ids : \A j \in ids : ws[j].window_start <= ws[i].window_start

\* UNIQUE(agent_wallet, provider, model, window_type, window_start); NULL models never clash
WindowKeyTaken(ws, a, provider, model, wt, start) ==
  /\ model # NullModel
  /\ \E i \in 1..Len(ws) : /\ ws[i].agent_wallet = a
                           /\ ws[i].provider = provider
                           /\ ws[i].model = model
                           /\ ws[i].window_type = wt
                           /\ ws[i].window_start = start

NewWindow(cfg, a, provider, model, wt, tier, t) ==
  LET limits == getLimits(cfg, provider, model, tier)
  IN [agent_wallet |-> a, provider |-> provider, model |-> model, window_type |-> wt,
      window_start |-> t, window_end |-> calculateWindowEnd(t, wt),
      request_count |-> 0, token_count |-> 0,
      limit_requests |-> getLimitForWindowType(limits, wt, "requests"),
      limit_tokens |-> getLimitForWindowType(limits, wt, "tokens"),
      is_active |-> TRUE]

updateWindowCounts(ws, id, tokens) ==
  [ws EXCEPT ![id].request_count = @ + 1, ![id].token_count = @ + tokens]

deactivateWindow(ws, id) == [ws EXCEPT ![id].is_active = FALSE]

\* ------------------------------------------------------------------ queue
\* queued_at DEFAULT CURRENT_TIMESTAMP has one-second resolution
SqlTimestamp(t) == (t \div UnitsPerSecond) * UnitsPerSecond

\* the count taken over the rows being processed instead of the pending ones
getQueueSizeProcessing(qu, a) ==
  Cardinality({i \in 1..Len(qu) : qu[i].agent_wallet = a /\ qu[i].status = "processing"})

getQueueSize(qu, a) ==
  Cardinality({i \in 1..Len(qu) : qu[i].agent_wallet = a /\ qu[i].status = "pending"})

\* candidates of dequeue's SELECT (no wallet filter: processQueue passes none)
\* a SELECT that also returns the rows another drain holds
CandidatesHeld(qu) ==
  {i \in 1..Len(qu) : /\ qu[i].status \in {"pending", "processing"}
                      /\ qu[i].retry_count < qu[i].max_retries}

Candidates(qu) ==
  {i \in 1..Len(qu) : qu[i].status = "pending" /\ qu[i].retry_count < qu[i].max_retries}

\* the ordering with the priority column sorted the wrong way round
BeforeAscending(qu, i, j) ==
  \/ qu[i].priority < qu[j].priority
  \/ qu[i].priority = qu[j].priority /\ qu[i].queued_at < qu[j].queued_at

\* ORDER BY priority DESC, queued_at ASC
Before(qu, i, j) ==
  \/ qu[i].priority > qu[j].priority
  \/ qu[i].priority = qu[j].priority /\ qu[i].queued_at < qu[j].queued_at

\* rows LIMIT 1 may return: no candidate is ordered before them
FirstCandidates(qu) ==
  {i \in Candidates(qu) : \A j \in Candidates(qu) : ~Before(qu, j, i)}

complete(qu, id, success, err) ==
  [qu EXCEPT ![id].status = IF success THEN "completed" ELSE "failed",
             ![id].error = err,
             ![id].retry_count = @ + (IF success THEN 0 ELSE 1)]

NewEntry(a, provider, model, priority, t) ==
  [agent_wallet |-> a, provider |-> provider, model |-> model,
   priority |-> priority, retry_count |-> 0, max_retries |-> defaultMaxRetries,
   status |-> "pending", queued_at |-> SqlTimestamp(t), error |-> "",
   processed_at |-> 0, cancelled |-> FALSE]

\* ------------------------------------------------------------------- state
VARIABLES now, quotas, configs, windows, queue, events, reqs, pc, loc,
          sessions, analyses, patterns,
          conc, tenants, providers, preFaults, postFaults, history, scenario, ticks

vars == <<now, quotas, configs, windows, queue, events, reqs, pc, loc,
          sessions, analyses, patterns,
          conc, tenants, providers, preFaults, postFaults, history, scenario, ticks>>

\* the store, the clock and the invocations as one value, so that a block of
\* code is a function from states to states
State ==
  [now |-> now, quotas |-> quotas, configs |-> configs, windows |-> windows,
   queue |-> queue, events |-> events, reqs |-> reqs, pc |-> pc, loc |-> loc,
   sessions |-> sessions]

Becomes(T) ==
  /\ now' = T.now
  /\ quotas' = T.quotas
  /\ configs' = T.configs
  /\ windows' = T.windows
  /\ queue' = T.queue
  /\ events' = T.events
  /\ reqs' = T.reqs
  /\ pc' = T.pc
  /\ loc' = T.loc
  /\ sessions' = T.sessions

NoWin == [id |-> 0, window_end |-> 0, request_count |-> 0, token_count |-> 0,
          limit_requests |-> 0, limit_tokens |-> 0]
NoRes == [exceeded |-> FALSE, current |-> 0, limit |-> 0]
NoQ == [tier |-> "", can_queue |-> FALSE, max_queue_size |-> 0, auto_learning |-> FALSE]

\* locals of an invocation that is not running
Idle ==
  [req |-> 0, a |-> "", provider |-> "", model |-> "", caller |-> "", ctx |-> "",
   ret |-> "", wi |-> 0, win |-> NoWin, tier |-> "", quota |-> NoQ, res |-> NoRes,
   qsize |-> 0, qid |-> 0, i |-> 0, n |-> 0, tokens |-> 0, fault |-> ""]

\* the row snapshot a SELECT hands to the JavaScript code
Snapshot(ws, id) ==
  [id |-> id, window_end |-> ws[id].window_end,
   request_count |-> ws[id].request_count, token_count |-> ws[id].token_count,
   limit_requests |-> ws[id].limit_requests, limit_tokens |-> ws[id].limit_tokens]

\* setup.js writes provider-wide rows; the ceilings are configuration data
InitConfigs ==
  {[provider |-> Provider, model |-> NullModel, tier |-> tr,
    lim |-> [rpm |-> RpmLimit, rph |-> 0, rpd |-> RpdLimit, tpm |-> TpmLimit, tpd |-> 0]]
     : tr \in {"free", "pro"}}
  \cup
  {[provider |-> "openai", model |-> NullModel, tier |-> "free",
    lim |-> [rpm |-> RpmLimit + 1, rph |-> 0, rpd |-> 0, tpm |-> TpmLimit, tpd |-> 0]],
   [provider |-> "shared", model |-> NullModel, tier |-> "free",
    lim |-> [rpm |-> SharedRpmLimit, rph |-> 0, rpd |-> 0, tpm |-> 0, tpd |-> 0]]}

\* rows an operator adds for one model of the provider, with ceilings of
\* their own
ExactConfigs ==
  {[provider |-> Provider, model |-> Model, tier |-> tr,
    lim |-> [rpm |-> RpmLimit + 1, rph |-> 0, rpd |-> RpdLimit + 2, tpm |-> TpmLimit + 1,
             tpd |-> 0]]
     : tr \in {"free", "pro"}}

\* the row grantLicense(wallet, 'pro', 1) writes at time 0: pro for one month
ProQuota ==
  [exists |-> TRUE, tier |-> "pro", can_queue |-> TRUE,
   max_queue_size |-> QueueCap, auto_learning |-> TRUE, paid_until |-> LicenseMs]

\* the database at start-up: each wallet the host serves has no quota row
\* yet or holds a licence
InitCommon ==
  /\ now = 0
  /\ quotas \in [Agents -> {NoQuota, ProQuota}]
  /\ \A a \in Agents \ tenants : quotas[a] = NoQuota
  /\ configs = InitConfigs
  /\ windows = <<>>
  /\ queue = <<>>
  /\ events = <<>>
  /\ reqs = <<>>
  /\ pc = [p \in Procs |-> "idle"]
  /\ loc = [p \in Procs |-> Idle]
  /\ sessions = {}
  /\ analyses = 0
  /\ patterns = <<>>
  /\ ticks = 0

Goto(S, p, label, l) == [S EXCEPT !.pc[p] = label, !.loc[p] = l]

Return(S, p) == [S EXCEPT !.pc[p] = "idle", !.loc[p] = Idle]

\* CURRENT_TIMESTAMP as stored with a row; kept only by the runs that look
\* at admission times
Stamp(t) == IF scenario = "burst" THEN t ELSE 0

SetOutcome(S, r, o) == [S EXCEPT !.reqs[r].outcome = o]

recordEvent(S, l, type, wt, res) ==
  [S EXCEPT !.events =
     Append(@, [agent_wallet |-> l.a, provider |-> l.provider, model |-> l.model,
                event_type |-> type, window_type |-> wt,
                current_count |-> res.current, limit_value |-> res.limit,
                request_id |-> l.req])]

\* ---------------------------------------------------------- WindowTracker
\* getCurrentWindow up to its first suspension: the SELECT and, when no row is
\* active, createWindow -> getLimits -> checkQuotaAvailable (which may create
\* the quota row).  The invocation resumes in ret with the row, or in
\* createWindow's INSERT.
getCurrentWindow(S, p, l, ret) ==
  LET id == SelectActiveWindow(S.windows, l.a, l.provider, l.model, windowTypes[l.wi])
  IN IF id # 0
     THEN Goto(S, p, ret, [l EXCEPT !.win = Snapshot(S.windows, id)])
     ELSE Goto([S EXCEPT !.quotas = getQuota(@, l.a)], p, "cw_insert",
               [l EXCEPT !.ret = ret,
                         !.tier = checkQuotaAvailable(S.quotas, l.a, S.now).tier])

\* where wouldExceedLimit / incrementWindow return to
AfterCheck(l) == IF l.caller = "bp" THEN "bp_after_check" ELSE "pq_after_check"
AfterInc(l) == IF l.caller = "bp" THEN "bp_after_inc" ELSE "pq_after_inc"

\* createWindow after `await getLimits`: the INSERT, or the UNIQUE violation,
\* which wouldExceedLimit turns into exceeded=true, updateTokenCount swallows
\* and incrementWindow rethrows to beforeProvider / processQueue
createWindow(S, p) ==
  LET l == S.loc[p]
      wt == windowTypes[l.wi]
      ws == Append(S.windows,
                   NewWindow(S.configs, l.a, l.provider, l.model, wt, l.tier, S.now))
  IN IF WindowKeyTaken(S.windows, l.a, l.provider, l.model, wt, S.now)
     THEN CASE l.ctx = "we" ->
                 Goto(S, p, AfterCheck(l),
                      [l EXCEPT !.res = [exceeded |-> TRUE, current |-> 0, limit |-> 0]])
            [] l.ctx = "utc" -> Goto(S, p, "ap_after_utc", l)
            [] l.ctx = "inc" /\ l.caller = "bp" -> Return(SetOutcome(S, l.req, "error"), p)
            [] OTHER -> Return(S, p)
     ELSE Goto([S EXCEPT !.windows = ws], p, l.ret,
               [l EXCEPT !.win = Snapshot(ws, Len(ws))])

\* rotateWindow up to createWindow's first suspension
rotateWindow(S, p, l, ret) ==
  Goto([S EXCEPT !.windows = deactivateWindow(@, l.win.id),
                 !.quotas = getQuota(@, l.a)],
       p, "cw_insert",
       [l EXCEPT !.ret = ret, !.tier = checkQuotaAvailable(S.quotas, l.a, S.now).tier])

\* wouldExceedLimit deciding on the request count alone
wouldExceedLimitRequestsOnly(S, p) ==
  LET l == S.loc[p]
  IN IF S.now > l.win.window_end
     THEN rotateWindow(S, p, l, "we_reget")
     ELSE Goto(S, p, AfterCheck(l),
               [l EXCEPT !.res =
                  [exceeded |-> l.win.limit_requests # 0
                                  /\ l.win.request_count >= l.win.limit_requests,
                   current |-> l.win.request_count,
                   limit |-> l.win.limit_requests]])

\* wouldExceedLimit after `await getCurrentWindow`: rotate an expired window,
\* else decide on the row read
wouldExceedLimit(S, p) ==
  LET l == S.loc[p]
  IN IF S.now > l.win.window_end
     THEN rotateWindow(S, p, l, "we_reget")
     ELSE Goto(S, p, AfterCheck(l), [l EXCEPT !.res = checkWindowLimitDetailed(l.win)])

\* wouldExceedLimit after `await rotateWindow`: fetch the current window again
wouldExceedLimitReget(S, p) == getCurrentWindow(S, p, S.loc[p], "we_ret")

\* wouldExceedLimit after the second `await getCurrentWindow`
wouldExceedLimitReturn(S, p) ==
  Goto(S, p, AfterCheck(S.loc[p]),
       [S.loc[p] EXCEPT !.res = checkWindowLimitDetailed(S.loc[p].win)])

\* first block of incrementWindow
incrementWindowCall(S, p) == getCurrentWindow(S, p, S.loc[p], "inc_now")

\* incrementWindow after `await getCurrentWindow`
incrementWindow(S, p) ==
  LET l == S.loc[p]
  IN IF S.now > l.win.window_end
     THEN rotateWindow(S, p, l, "inc_reget")
     ELSE Goto([S EXCEPT !.windows = updateWindowCounts(@, l.win.id, 0)], p, AfterInc(l), l)

incrementWindowReget(S, p) == getCurrentWindow(S, p, S.loc[p], "inc_upd")

\* incrementWindow after rotation: count on the window fetched again
incrementWindowNew(S, p) ==
  Goto([S EXCEPT !.windows = updateWindowCounts(@, S.loc[p].win.id, 0)],
       p, AfterInc(S.loc[p]), S.loc[p])

\* updateTokenCount written with updateWindowCounts' UPDATE: it counts a
\* request as well
updateTokenCountAndRequest(S, p) ==
  Goto([S EXCEPT !.windows[S.loc[p].win.id].token_count = @ + S.loc[p].tokens,
                 !.windows[S.loc[p].win.id].request_count = @ + 1],
       p, "ap_after_utc", S.loc[p])

\* updateTokenCount after `await getCurrentWindow`: no expiry test, no rotation
updateTokenCount(S, p) ==
  Goto([S EXCEPT !.windows[S.loc[p].win.id].token_count = @ + S.loc[p].tokens],
       p, "ap_after_utc", S.loc[p])

\* ------------------------------------------------------------ RequestQueue
\* dequeue without its age test: whatever is selected is marked processing
dequeueNoExpiry(S, p, l) ==
  IF Candidates(S.queue) = {}
  THEN {Goto(S, p, "pq_deq_done", [l EXCEPT !.qid = 0])}
  ELSE {Goto([S EXCEPT !.queue[c].status = "processing"],
             p, "pq_deq_done", [l EXCEPT !.qid = c])
          : c \in FirstCandidates(S.queue)}

\* dequeue up to its first suspension: SELECT the first candidate; an entry
\* older than maxQueueAge is failed and dequeue calls itself again, any other
\* is marked processing and returned.  Rows that tie on (priority, queued_at)
\* come back in an order SQL leaves open: every such row is a possible result.
dequeue(S, p, l) ==
  IF Candidates(S.queue) = {}
  THEN {Goto(S, p, "pq_deq_done", [l EXCEPT !.qid = 0])}
  ELSE {IF S.now - S.queue[c].queued_at > maxQueueAge
        THEN Goto([S EXCEPT !.queue = complete(@, c, FALSE, "Request expired in queue")],
                  p, "dq_again", l)
        ELSE Goto([S EXCEPT !.queue[c].status = "processing"],
                  p, "pq_deq_done", [l EXCEPT !.qid = c])
          : c \in FirstCandidates(S.queue)}

\* enqueue called on its own, up to `await checkQuotaAvailable`; the call
\* is kept with the requests, its outcome is what it returns or throws
enqueueEnter(S, p, a, provider) ==
  Goto([S EXCEPT !.quotas = getQuota(@, a),
                 !.reqs = Append(@, [agent_wallet |-> a, provider |-> provider,
                                     op |-> "enqueue",
                                     at |-> Stamp(S.now),
                                     outcome |-> "running", decision |-> FALSE,
                                     posted |-> FALSE, failed |-> "",
                                     post_failed |-> "", post_raised |-> FALSE])],
       p, "enq_quota",
       [Idle EXCEPT !.req = Len(S.reqs) + 1, !.a = a, !.provider = provider,
                    !.model = Model, !.caller = "enqueue",
                    !.quota = checkQuotaAvailable(S.quotas, a, S.now)])

\* enqueue returns the queue id to the caller that called it on its own
enqueueReturn(S, p) == Return(SetOutcome(S, S.loc[p].req, "enqueued"), p)

\* an enqueue that does not look at the may-queue capability
enqueueQuotaOpen(S, p) ==
  LET l == S.loc[p]
  IN Goto(S, p, "enq_size", [l EXCEPT !.qsize = getQueueSize(S.queue, l.a)])

\* enqueue after `await checkQuotaAvailable`
enqueueQuota(S, p) ==
  LET l == S.loc[p]
  IN IF ~l.quota.can_queue
     THEN Return(SetOutcome(S, l.req, "queue_disabled"), p)
     ELSE Goto(S, p, "enq_size", [l EXCEPT !.qsize = getQueueSize(S.queue, l.a)])

\* the values of requestData.priority the callers of a run supply; the
\* runs that look at the stored priorities add one above the scale
PriorityInputs == IF scenario = "priority" THEN Priorities \cup {11} ELSE Priorities

\* enqueue after `await getQueueSize`: the capacity test and the INSERT.
\* requestData.priority is an input of the request that only this block
\* reads (0 when absent): one result per value it may have.
enqueue(S, p) ==
  LET l == S.loc[p]
  IN IF l.qsize >= l.quota.max_queue_size
     THEN {Return(SetOutcome(S, l.req, "queue_full"), p)}
     ELSE {Goto([S EXCEPT !.queue =
                    Append(@, NewEntry(l.a, l.provider, l.model,
                                       IF prio # 0 THEN prio ELSE defaultPriority,
                                       S.now))],
                p, "bp_enq_done", [l EXCEPT !.qid = Len(S.queue) + 1])
             : prio \in PriorityInputs}

\* --------------------------------------------------------- beforeProvider
\* entry of beforeProvider up to `await checkQuotaAvailable`
beforeProviderEnter(S, p, a, provider, f) ==
  Goto([S EXCEPT !.quotas = getQuota(@, a),
                 !.reqs = Append(@, [agent_wallet |-> a, provider |-> provider,
                                     op |-> "beforeProvider",
                                     at |-> Stamp(S.now),
                                     outcome |-> "running", decision |-> FALSE,
                                     posted |-> FALSE, failed |-> "",
                                     post_failed |-> "", post_raised |-> FALSE])],
       p, "bp_check",
       [Idle EXCEPT !.req = Len(S.reqs) + 1, !.a = a, !.provider = provider,
                    !.model = Model, !.caller = "bp", !.ctx = "we", !.wi = 1,
                    !.quota = checkQuotaAvailable(S.quotas, a, S.now),
                    !.fault = f])

\* first wouldExceedLimit call of the horizon loop
beforeProviderCheck(S, p) == getCurrentWindow(S, p, S.loc[p], "we_now")

\* the horizon loop cut short: the request is allowed as soon as the minute
\* window has room
beforeProviderDecideMinuteOnly(S, p) ==
  LET l == S.loc[p]
  IN IF l.res.exceeded
     THEN IF l.quota.tier = "pro" /\ l.quota.can_queue
          THEN Goto(S, p, "bp_qsize", [l EXCEPT !.qsize = getQueueSize(S.queue, l.a)])
          ELSE Return(SetOutcome(recordEvent(S, l, "blocked", windowTypes[l.wi], l.res),
                                 l.req, "blocked"), p)
     ELSE Goto(recordEvent(S, l, "allowed", "", NoRes), p, "inc_call",
               [l EXCEPT !.wi = 1, !.ctx = "inc"])

\* after `await wouldExceedLimit`: next horizon, refusal, or the allowed event
beforeProviderDecide(S, p) ==
  LET l == S.loc[p]
  IN IF l.res.exceeded
     THEN IF l.quota.tier = "pro" /\ l.quota.can_queue
          THEN Goto(S, p, "bp_qsize", [l EXCEPT !.qsize = getQueueSize(S.queue, l.a)])
          ELSE Return(SetOutcome(recordEvent(S, l, "blocked", windowTypes[l.wi], l.res),
                                 l.req, "blocked"), p)
     ELSE IF l.wi < 3
          THEN getCurrentWindow(S, p, [l EXCEPT !.wi = l.wi + 1], "we_now")
          ELSE Goto(recordEvent(S, l, "allowed", "", NoRes), p, "inc_call",
                    [l EXCEPT !.wi = 1, !.ctx = "inc"])

\* after `await getQueueSize`: queue full, or enter RequestQueue.enqueue
beforeProviderQueueSize(S, p) ==
  LET l == S.loc[p]
  IN IF l.qsize >= l.quota.max_queue_size
     THEN Return(SetOutcome(S, l.req, "queue_full"), p)
     ELSE Goto([S EXCEPT !.quotas = getQuota(@, l.a)], p, "enq_quota",
               [l EXCEPT !.quota = checkQuotaAvailable(S.quotas, l.a, S.now)])

\* after `await enqueue`: the queued event, then the QUEUED error
\* a queued request that joins the session roster
beforeProviderQueuedTracked(S, p) ==
  LET l == S.loc[p]
  IN Return([SetOutcome(recordEvent(S, l, "queued", windowTypes[l.wi], l.res),
                        l.req, "queued") EXCEPT !.sessions = @ \cup {l.a}], p)

beforeProviderQueued(S, p) ==
  LET l == S.loc[p]
  IN Return(SetOutcome(recordEvent(S, l, "queued", windowTypes[l.wi], l.res),
                       l.req, "queued"), p)

\* after `await incrementWindow`: next horizon, or attach the decision, note
\* the session (one per wallet) and return
beforeProviderIncremented(S, p) ==
  LET l == S.loc[p]
  IN IF l.wi < 3
     THEN getCurrentWindow(S, p, [l EXCEPT !.wi = l.wi + 1], "inc_now")
     ELSE Return([S EXCEPT !.reqs[l.req].outcome = "allowed",
                           !.reqs[l.req].decision = TRUE,
                           !.sessions = @ \cup {l.a}], p)

\* ---------------------------------------------------------- afterProvider
\* an afterProvider that does not look at the decision
afterProviderEnterUndecided(S, p, r, tk, f) ==
  LET T == [S EXCEPT !.reqs[r].posted = TRUE]
  IN getCurrentWindow(T, p,
            [Idle EXCEPT !.req = r, !.a = S.reqs[r].agent_wallet,
                         !.provider = S.reqs[r].provider,
                         !.model = Model, !.caller = "ap", !.ctx = "utc", !.wi = 1,
                         !.tokens = tk, !.fault = f],
            "utc_upd")

\* entry of afterProvider up to the first `await updateTokenCount`; for a
\* request without an allowed decision it returns at once and changes nothing
\* (the runs that keep a history note that call as posted)
afterProviderEnter(S, p, r, tk, f) ==
  LET T == [S EXCEPT !.reqs[r].posted = TRUE]
  IN IF ~S.reqs[r].decision
     THEN (IF history THEN T ELSE S)
     ELSE getCurrentWindow(T, p,
            [Idle EXCEPT !.req = r, !.a = S.reqs[r].agent_wallet,
                         !.provider = S.reqs[r].provider,
                         !.model = Model, !.caller = "ap", !.ctx = "utc", !.wi = 1,
                         !.tokens = tk, !.fault = f],
            "utc_upd")

\* after `await updateTokenCount`: next horizon, or read the quota
afterProviderTokens(S, p) ==
  LET l == S.loc[p]
  IN IF l.wi < 3
     THEN getCurrentWindow(S, p, [l EXCEPT !.wi = l.wi + 1], "utc_upd")
     ELSE Goto([S EXCEPT !.quotas = getQuota(@, l.a)], p, "ap_quota",
               [l EXCEPT !.quota = checkQuotaAvailable(S.quotas, l.a, S.now)])

\* after `await checkQuotaAvailable`: pro tenants enter processQueue
afterProviderQuota(S, p) ==
  LET l == S.loc[p]
  IN IF l.quota.tier = "pro" /\ l.quota.can_queue
     THEN Goto(S, p, "pq_size", [l EXCEPT !.qsize = getQueueSize(S.queue, l.a)])
     ELSE Return(S, p)

\* ----------------------------------------------------------- processQueue
\* the drain with a loop as long as the queue
processQueueUnbounded(S, p) ==
  LET l == S.loc[p]
  IN IF l.qsize = 0
     THEN {Return(S, p)}
     ELSE dequeue(S, p, [l EXCEPT !.i = 0, !.n = l.qsize, !.caller = "pq"])

\* after `await getQueueSize`: start the drain loop with its first dequeue
processQueue(S, p) ==
  LET l == S.loc[p]
  IN IF l.qsize = 0
     THEN {Return(S, p)}
     ELSE dequeue(S, p, [l EXCEPT !.i = 0, !.n = Min(DrainBound, l.qsize), !.caller = "pq"])

\* after `await dequeue`: stop on null, else check the entry's minute window
processQueueDequeued(S, p) ==
  LET l == S.loc[p]
  IN IF l.qid = 0
     THEN Return(S, p)
     ELSE getCurrentWindow(S, p,
            [l EXCEPT !.a = S.queue[l.qid].agent_wallet,
                      !.provider = S.queue[l.qid].provider,
                      !.model = S.queue[l.qid].model, !.wi = 1, !.ctx = "we"],
            "we_now")

\* a re-pend that counts as a failed attempt
processQueueDecideCounting(S, p) ==
  LET l == S.loc[p]
  IN IF ~l.res.exceeded
     THEN Goto([S EXCEPT !.queue = [complete(@, l.qid, TRUE, "")
                                      EXCEPT ![l.qid].processed_at = Stamp(S.now)]],
               p, "inc_call",
               [l EXCEPT !.wi = 1, !.ctx = "inc"])
     ELSE Return([S EXCEPT !.queue[l.qid].status = "pending",
                           !.queue[l.qid].retry_count = @ + 1], p)

\* after `await wouldExceedLimit`: complete the entry, or re-pend it and stop
processQueueDecide(S, p) ==
  LET l == S.loc[p]
  IN IF ~l.res.exceeded
     THEN Goto([S EXCEPT !.queue = [complete(@, l.qid, TRUE, "")
                                      EXCEPT ![l.qid].processed_at = Stamp(S.now)]],
               p, "inc_call",
               [l EXCEPT !.wi = 1, !.ctx = "inc"])
     ELSE Return([S EXCEPT !.queue[l.qid].status = "pending"], p)

\* after `await incrementWindow`: next horizon, or the next loop iteration
processQueueIncremented(S, p) ==
  LET l == S.loc[p]
  IN IF l.wi < 3
     THEN {getCurrentWindow(S, p, [l EXCEPT !.wi = l.wi + 1], "inc_now")}
     ELSE IF l.i + 1 < l.n
          THEN dequeue(S, p, [l EXCEPT !.i = l.i + 1])
          ELSE {Return(S, p)}

\* ------------------------------------------------------------ store errors
\* A store call can throw (SQLITE_BUSY, disk full, ...).  An invocation's fault
\* input names the store call that throws, the first time the invocation
\* makes it: FaultAt tells whether the block invocation p resumes in begins
\* with that call.
FaultAt(S, p) ==
  LET l == S.loc[p]
  IN CASE l.fault = "getLimits" -> S.pc[p] = "cw_insert"
       [] l.fault = "createWindow" -> S.pc[p] = "cw_insert"
       [] l.fault = "updateWindowCounts" ->
            \/ S.pc[p] = "inc_now" /\ ~(S.now > l.win.window_end)
            \/ S.pc[p] = "inc_upd"
       [] l.fault = "updateTokenCount" -> S.pc[p] = "utc_upd"
       [] l.fault = "recordEvent" ->
            \/ S.pc[p] = "bp_enq_done"
            \/ /\ S.pc[p] = "bp_after_check"
               /\ IF l.res.exceeded THEN ~(l.quota.tier = "pro" /\ l.quota.can_queue)
                  ELSE l.wi = 3
       [] l.fault = "complete" -> S.pc[p] = "pq_after_check" /\ ~l.res.exceeded
       [] l.fault = "checkQuotaAvailable" ->
            \/ S.pc[p] = "bp_qsize" /\ l.qsize < l.quota.max_queue_size
            \/ S.pc[p] = "ap_after_utc" /\ l.wi = 3
       [] OTHER -> FALSE

\* the fault has happened: it is noted on the request and does not recur
Failed(S, p) ==
  LET l == S.loc[p]
  IN IF l.caller = "bp"
     THEN [S EXCEPT !.reqs[l.req].failed = l.fault, !.loc[p].fault = ""]
     ELSE [S EXCEPT !.reqs[l.req].post_failed = l.fault, !.loc[p].fault = ""]

\* the catch clause of afterProvider with the `throw error` that
\* beforeProvider's has: the error reaches the host
afterProviderRethrow(S, p) ==
  Return([S EXCEPT !.reqs[S.loc[p].req].post_raised = TRUE], p)

\* the catch clause of afterProvider: log, and return
afterProviderCatch(S, p) == Return(S, p)

\* an error thrown inside WindowTracker travels to the nearest catch that
\* does not rethrow: wouldExceedLimit answers exceeded, updateTokenCount
\* returns, incrementWindow rethrows to beforeProvider (which rethrows to the
\* host) or to processQueue (which logs and returns)
StoreError(S, p) ==
  LET l == S.loc[p]
  IN CASE l.ctx = "we" ->
            Goto(S, p, AfterCheck(l),
                 [l EXCEPT !.res = [exceeded |-> TRUE, current |-> 0, limit |-> 0]])
       [] l.ctx = "utc" -> Goto(S, p, "ap_after_utc", l)
       [] l.ctx = "inc" /\ l.caller = "bp" -> Return(SetOutcome(S, l.req, "error"), p)
       [] OTHER -> Return(S, p)

\* getLimits catches its own error and answers getDefaultLimits(provider,
\* 'free'): createWindow goes on with those ceilings
createWindowDefaultLimits(S, p) ==
  LET T == createWindow([S EXCEPT !.configs = {}, !.loc[p].tier = "free"], p)
  IN [T EXCEPT !.configs = S.configs]

\* the block of invocation p whose first store call throws
FaultyBlock(S, p) ==
  LET l == S.loc[p]
      T == Failed(S, p)
  IN CASE l.fault = "getLimits" -> createWindowDefaultLimits(T, p)
       [] l.fault = "recordEvent" -> Return(SetOutcome(T, l.req, "error"), p)
       [] l.fault = "complete" -> Return(T, p)
       [] l.fault = "checkQuotaAvailable" ->
            IF l.caller = "bp" THEN Return(SetOutcome(T, l.req, "error"), p)
            ELSE afterProviderCatch(T, p)
       [] OTHER -> StoreError(T, p)

\* ---------------------------------------------------------------- blocks
\* the states invocation p can be in after running its next block: the code
\* from the suspension point pc[p] names to the next one
Block(S, p) ==
  IF FaultAt(S, p) THEN {FaultyBlock(S, p)} ELSE
  CASE S.pc[p] = "bp_check" -> {beforeProviderCheck(S, p)}
    [] S.pc[p] = "bp_after_check" -> {beforeProviderDecide(S, p)}
    [] S.pc[p] = "bp_qsize" -> {beforeProviderQueueSize(S, p)}
    [] S.pc[p] = "enq_quota" -> {enqueueQuota(S, p)}
    [] S.pc[p] = "enq_size" -> enqueue(S, p)
    [] S.pc[p] = "bp_enq_done" -> {IF S.loc[p].caller = "enqueue"
                                   THEN enqueueReturn(S, p)
                                   ELSE beforeProviderQueued(S, p)}
    [] S.pc[p] = "bp_after_inc" -> {beforeProviderIncremented(S, p)}
    [] S.pc[p] = "utc_upd" -> {updateTokenCount(S, p)}
    [] S.pc[p] = "ap_after_utc" -> {afterProviderTokens(S, p)}
    [] S.pc[p] = "ap_quota" -> {afterProviderQuota(S, p)}
    [] S.pc[p] = "pq_size" -> processQueue(S, p)
    [] S.pc[p] = "dq_again" -> dequeue(S, p, S.loc[p])
    [] S.pc[p] = "pq_deq_done" -> {processQueueDequeued(S, p)}
    [] S.pc[p] = "pq_after_check" -> {processQueueDecide(S, p)}
    [] S.pc[p] = "pq_after_inc" -> processQueueIncremented(S, p)
    [] S.pc[p] = "cw_insert" -> {createWindow(S, p)}
    [] S.pc[p] = "we_now" -> {wouldExceedLimit(S, p)}
    [] S.pc[p] = "we_reget" -> {wouldExceedLimitReget(S, p)}
    [] S.pc[p] = "we_ret" -> {wouldExceedLimitReturn(S, p)}
    [] S.pc[p] = "inc_call" -> {incrementWindowCall(S, p)}
    [] S.pc[p] = "inc_now" -> {incrementWindow(S, p)}
    [] S.pc[p] = "inc_reget" -> {incrementWindowReget(S, p)}
    [] S.pc[p] = "inc_upd" -> {incrementWindowNew(S, p)}
    [] OTHER -> {S}

\* the states in which invocation p, run without interruption, has returned
RECURSIVE Run(_, _)
Run(S, p) ==
  IF S.pc[p] = "idle" THEN {S} ELSE UNION {Run(T, p) : T \in Block(S, p)}

\* --------------------------------------------------- hooks awaited in turn
Quiet == \A q \in Procs : pc[q] = "idle"

\* how far a run goes: by whether hooks interleave and how many wallets call
CallBound ==
  IF scenario = "session" THEN MaxSessionCalls
  ELSE IF scenario = "configs" THEN MaxConfigCalls
  ELSE IF scenario = "patterns" THEN MaxPatternCalls
  ELSE IF scenario = "burst" THEN MaxBurstCalls
  ELSE IF scenario = "drain" THEN MaxDrainCalls
  ELSE IF scenario = "drains" THEN Cardinality(Procs)
  ELSE IF scenario = "retry" THEN MaxRetryCalls
  ELSE IF scenario = "enqueue" THEN MaxEnqueueCalls
  ELSE IF scenario = "post" THEN MaxPostCalls
  ELSE IF conc THEN MaxConcCalls
  ELSE IF tenants = Agents THEN MaxMultiCalls
  ELSE IF preFaults \cup postFaults # {} THEN MaxFaultCalls
  ELSE IF providers # {Provider} THEN MaxProviderCalls
  ELSE MaxCalls
TickBound ==
  IF scenario = "session" THEN MaxSessionTicks
  ELSE IF scenario = "configs" THEN MaxConfigTicks
  ELSE IF scenario = "patterns" THEN MaxPatternTicks
  ELSE IF scenario = "burst" THEN MaxBurstTicks
  ELSE IF scenario = "drain" THEN MaxDrainTicks
  ELSE IF scenario = "drains" THEN MaxDrainsTicks
  ELSE IF scenario = "retry" THEN MaxRetryTicks
  ELSE IF scenario = "enqueue" THEN MaxEnqueueTicks
  ELSE IF scenario = "post" THEN MaxPostTicks
  ELSE IF conc THEN MaxConcTicks
  ELSE IF tenants = Agents THEN MaxMultiTicks
  ELSE IF preFaults \cup postFaults # {} THEN MaxFaultTicks
  ELSE IF providers # {Provider} THEN MaxProviderTicks
  ELSE MaxTicks

\* the host awaits the hook: the whole of beforeProvider is one step
beforeProvider ==
  /\ ~conc
  /\ Len(reqs) < CallBound
  /\ \E a \in tenants, provider \in providers, f \in preFaults \cup {""} :
       \E T \in Run(beforeProviderEnter(State, 1, a, provider, f), 1) : Becomes(T)
  /\ UNCHANGED <<analyses, patterns, conc, tenants, providers, preFaults, postFaults, history,
               scenario, ticks>>

\* the whole of afterProvider, its drain included, for a request whose
\* beforeProvider has returned; the host calls it once per request
afterProvider ==
  /\ ~conc
  /\ \E r \in 1..Len(reqs), tk \in TokenInputs, f \in postFaults \cup {""} :
       /\ ~reqs[r].posted
       /\ \E T \in Run(afterProviderEnter(State, 1, r, tk, f), 1) : Becomes(T)
  /\ UNCHANGED <<analyses, patterns, conc, tenants, providers, preFaults, postFaults, history,
               scenario, ticks>>

\* ------------------------------------------- hooks started without awaiting
beforeProviderStart(p) ==
  /\ conc
  /\ pc[p] = "idle"
  /\ Len(reqs) < CallBound
  /\ \E a \in tenants, provider \in providers :
       Becomes(beforeProviderEnter(State, p, a, provider, ""))
  /\ UNCHANGED <<analyses, patterns, conc, tenants, providers, preFaults, postFaults, history,
               scenario, ticks>>

\* afterProvider started without awaiting the one in flight
afterProviderStart(p) ==
  /\ scenario = "drains"
  /\ pc[p] = "idle"
  /\ \E r \in 1..Len(reqs), tk \in TokenInputs :
       /\ ~reqs[r].posted
       /\ Becomes(afterProviderEnter(State, p, r, tk, ""))
  /\ UNCHANGED <<analyses, patterns, conc, tenants, providers, preFaults, postFaults, history,
               scenario, ticks>>

\* invocation p resumes and runs to its next suspension point
Resume(p) ==
  /\ conc \/ scenario = "drains"
  /\ pc[p] # "idle"
  /\ \E T \in Block(State, p) : Becomes(T)
  /\ UNCHANGED <<analyses, patterns, conc, tenants, providers, preFaults, postFaults, history,
               scenario, ticks>>

\* --------------------------------------------------- calls without awaits
\* retry without the test of the retry count
retryUncounted(id) ==
  /\ Quiet
  /\ id \in 1..Len(queue)
  /\ queue' = [queue EXCEPT ![id].status = "pending", ![id].error = ""]
  /\ UNCHANGED <<now, quotas, configs, windows, events, reqs, pc, loc, sessions, analyses, patterns,
               conc, tenants, providers, preFaults, postFaults, history, scenario, ticks>>

\* retry has no suspension point
retry(id) ==
  /\ Quiet
  /\ id \in 1..Len(queue)
  /\ queue[id].retry_count < queue[id].max_retries
  /\ queue' = [queue EXCEPT ![id].status = "pending", ![id].error = ""]
  /\ UNCHANGED <<now, quotas, configs, windows, events, reqs, pc, loc, sessions, analyses, patterns,
               conc, tenants, providers, preFaults, postFaults, history, scenario, ticks>>

\* cancel has no suspension point; runs that keep a history mark the entry
cancel(id) ==
  /\ Quiet
  /\ id \in 1..Len(queue)
  /\ queue[id].status = "pending"
  /\ queue' = [queue EXCEPT ![id].status = "failed", ![id].error = "Cancelled by user",
                            ![id].cancelled = history]
  /\ UNCHANGED <<now, quotas, configs, windows, events, reqs, pc, loc, sessions, analyses, patterns,
               conc, tenants, providers, preFaults, postFaults, history, scenario, ticks>>

\* enqueue called by the host on its own and awaited
enqueueCall ==
  /\ Quiet /\ ~conc
  /\ Len(reqs) < CallBound
  /\ \E a \in tenants, provider \in providers :
       \E T \in Run(enqueueEnter(State, 1, a, provider), 1) : Becomes(T)
  /\ UNCHANGED <<analyses, patterns, conc, tenants, providers, preFaults, postFaults, history,
               scenario, ticks>>

\* updatePriority has no suspension point: values outside 1..10 are
\* refused, the UPDATE takes pending rows only
updatePriority(id, newPriority) ==
  /\ Quiet
  /\ id \in 1..Len(queue)
  /\ ~(newPriority < 1 \/ newPriority > 10)
  /\ queue[id].status = "pending"
  /\ queue' = [queue EXCEPT ![id].priority = newPriority]
  /\ UNCHANGED <<now, quotas, configs, windows, events, reqs, pc, loc, sessions, analyses, patterns,
               conc, tenants, providers, preFaults, postFaults, history, scenario, ticks>>

\* storePattern: a plain INSERT under a pattern_id drawn by randomUUID(), which
\* is one no stored row carries
storePattern(ps, a, type) ==
  Append(ps, [pattern_id |-> Len(ps) + 1, agent_wallet |-> a, pattern_type |-> type])

\* analyzeUsage: nothing below minEventsForPattern events of the wallet; else
\* the patterns found, in the order hourly, weekly, burst, each stored.  Which
\* of them reach minPatternConfidence follows from the hours, days and gaps of
\* the events' wall-clock timestamps: found is the set that did.
analyzeUsage(ps, ev, a, found) ==
  LET recent == {e \in 1..Len(ev) : ev[e].agent_wallet = a}
      hourly == IF "time_of_day" \in found THEN storePattern(ps, a, "time_of_day") ELSE ps
      weekly == IF "day_of_week" \in found
                THEN storePattern(hourly, a, "day_of_week") ELSE hourly
      burst  == IF "burst" \in found THEN storePattern(weekly, a, "burst") ELSE weekly
  IN IF Cardinality(recent) < minEventsForPattern THEN ps ELSE burst

sessionEndClosing(a) ==
  /\ Quiet /\ ~conc
  /\ a \in sessions
  /\ quotas' = getQuota(quotas, a)
  /\ LET learns == /\ checkQuotaAvailable(quotas, a, now).tier = "pro"
                    /\ checkQuotaAvailable(quotas, a, now).auto_learning
     IN /\ analyses' = analyses + (IF learns THEN 1 ELSE 0)
        /\ \E found \in SUBSET PatternTypes :
             patterns' = IF learns THEN analyzeUsage(patterns, events, a, found)
                         ELSE patterns
  /\ sessions' = sessions \ {a}
  /\ windows' = [i \in 1..Len(windows) |->
                   IF windows[i].agent_wallet = a
                   THEN [windows[i] EXCEPT !.request_count = 0]
                   ELSE windows[i]]
  /\ UNCHANGED <<now, configs, queue, events, reqs, pc, loc,
                 conc, tenants, providers, preFaults, postFaults, history, scenario, ticks>>

\* sessionEnd for the session of wallet a: read the quota, run the pattern
\* analysis for a licensed wallet with auto_learning, report, and forget the
\* session; analyses counts the runs of the analysis.
sessionEnd(a) ==
  /\ Quiet /\ ~conc
  /\ a \in sessions
  /\ quotas' = getQuota(quotas, a)
  /\ LET learns == /\ checkQuotaAvailable(quotas, a, now).tier = "pro"
                    /\ checkQuotaAvailable(quotas, a, now).auto_learning
     IN /\ analyses' = analyses + (IF learns THEN 1 ELSE 0)
        /\ \E found \in SUBSET PatternTypes :
             patterns' = IF learns THEN analyzeUsage(patterns, events, a, found)
                         ELSE patterns
  /\ sessions' = sessions \ {a}
  /\ UNCHANGED <<now, configs, windows, queue, events, reqs, pc, loc,
                 conc, tenants, providers, preFaults, postFaults, history, scenario, ticks>>

\* getStatus for any wallet, served or not: checkQuotaAvailable (through
\* getQuota, which creates a missing row), then reads of the active windows,
\* the queue size and the licence
getStatus(a) ==
  /\ Quiet /\ ~conc
  /\ quotas' = getQuota(quotas, a)
  /\ UNCHANGED <<now, configs, windows, queue, events, reqs, pc, loc, sessions, analyses, patterns,
                 conc, tenants, providers, preFaults, postFaults, history, scenario, ticks>>

\* how far the clock moves at once; the session runs look at the licence
\* period only, the burst runs at the two sides of a window's end, the
\* runs with drains in flight at entries past their queue age
ClockSteps ==
  IF scenario \in {"session", "enqueue", "configs"} THEN {per_minute, LicenseMs}
  ELSE IF scenario = "burst" THEN {1, per_minute}
  ELSE IF scenario = "patterns" THEN {per_minute}
  ELSE IF scenario \in {"drains", "retry"} THEN {maxQueueAge + per_minute}
  ELSE TickSteps

\* the wall clock moves
Tick ==
  /\ ticks < TickBound
  /\ \E d \in ClockSteps : now' = now + d
  /\ ticks' = ticks + 1
  /\ UNCHANGED <<quotas, configs, windows, queue, events, reqs, pc, loc, sessions, analyses,
               patterns, conc, tenants, providers, preFaults, postFaults, history, scenario>>

\* ---------------------------------------------------------- specifications
Init ==
  /\ conc = FALSE /\ tenants = {"a1"} /\ providers = {Provider}
  /\ preFaults = {} /\ postFaults = {}
  /\ history = FALSE /\ scenario = ""
  /\ InitCommon

Next ==
  \/ beforeProvider
  \/ afterProvider
  \/ \E id \in 1..Len(queue) : retry(id)
  \/ \E id \in 1..Len(queue) : cancel(id)
  \/ Tick

\* hooks called one after the other, each awaited
Spec == Init /\ [][Next]_vars

InitQueue ==
  /\ conc = FALSE /\ tenants = {"a1"} /\ providers = {Provider}
  /\ preFaults = {} /\ postFaults = {}
  /\ history = TRUE /\ scenario = ""
  /\ InitCommon

\* Spec with a history kept of which queue entries were cancelled
SpecQueue == InitQueue /\ [][Next]_vars

InitSession ==
  /\ conc = FALSE /\ tenants = {"a1"} /\ providers = {Provider}
  /\ preFaults = {} /\ postFaults = {}
  /\ history = FALSE /\ scenario = "session"
  /\ InitCommon
  /\ \A a \in tenants : quotas[a] = ProQuota

NextSession ==
  \/ beforeProvider
  \/ afterProvider
  \/ \E a \in tenants : sessionEnd(a)
  \/ Tick

\* the three hooks of a session, each awaited, over a licence that can lapse
SpecSession == InitSession /\ [][NextSession]_vars

\* a licensed wallet whose event log of earlier sessions is two events short
\* of what the detector asks for
InitPatternLog ==
  /\ conc = FALSE /\ tenants = {"a1"}
  /\ preFaults = {} /\ postFaults = {}
  /\ history = FALSE /\ scenario = "patterns"
  /\ now = 0
  /\ quotas = [a \in Agents |-> IF a \in tenants THEN ProQuota ELSE NoQuota]
  /\ configs = InitConfigs
  /\ windows = <<>>
  /\ queue = <<>>
  /\ events = [i \in 1..(minEventsForPattern - 2) |->
                [agent_wallet |-> "a1", provider |-> CHOOSE pr \in providers : TRUE,
                 model |-> Model, event_type |-> "allowed", window_type |-> "",
                 current_count |-> NoRes.current, limit_value |-> NoRes.limit,
                 request_id |-> 0]]
  /\ reqs = <<>>
  /\ pc = [p \in Procs |-> "idle"]
  /\ loc = [p \in Procs |-> Idle]
  /\ sessions = {}
  /\ analyses = 0
  /\ patterns = <<>>
  /\ ticks = 0

InitPatterns == providers = {Provider} /\ InitPatternLog

\* sessions of that wallet at a provider that admits RpmLimit requests a
\* minute, each ended with an analysis of its events
SpecPatterns == InitPatterns /\ [][NextSession]_vars

\* a wallet, licensed or not, over a configuration that holds the rows of the
\* provider, rows of the model for either tier, both or neither
InitConfigured ==
  /\ conc = FALSE /\ tenants = {"a1"} /\ providers = {Provider}
  /\ preFaults = {} /\ postFaults = {}
  /\ history = FALSE /\ scenario = "configs"
  /\ now = 0
  /\ quotas \in [Agents -> {NoQuota, ProQuota}]
  /\ \A a \in Agents \ tenants : quotas[a] = NoQuota
  /\ configs \in {wide \cup some : wide \in {InitConfigs, {}}, some \in SUBSET ExactConfigs}
  /\ windows = <<>>
  /\ queue = <<>>
  /\ events = <<>>
  /\ reqs = <<>>
  /\ pc = [p \in Procs |-> "idle"]
  /\ loc = [p \in Procs |-> Idle]
  /\ sessions = {}
  /\ analyses = 0
  /\ patterns = <<>>
  /\ ticks = 0

\* the hooks of a session over each of these configurations
SpecConfigured == InitConfigured /\ [][NextSession]_vars

InitReanalysis == providers = {"openai"} /\ InitPatternLog

\* sessions of that wallet at a provider held to the built-in table, which
\* admits every request of the run
SpecReanalysis == InitReanalysis /\ [][NextSession]_vars

\* a licensed wallet at openai whose queue holds MaxDrainsQueue pending
\* entries of distinct priorities
InitDrains ==
  /\ conc = FALSE /\ tenants = {"a1"} /\ providers = {"openai"}
  /\ preFaults = {} /\ postFaults = {}
  /\ history = FALSE /\ scenario = "drains"
  /\ now = 0
  /\ quotas = [a \in Agents |-> IF a \in tenants
                                THEN [ProQuota EXCEPT !.max_queue_size = MaxDrainsQueue]
                                ELSE NoQuota]
  /\ configs = InitConfigs
  /\ windows = <<>>
  /\ queue = [i \in 1..MaxDrainsQueue |->
               NewEntry("a1", "openai", Model, MaxDrainsQueue + 1 - i, 0)]
  /\ events = <<>>
  /\ reqs = <<>>
  /\ pc = [p \in Procs |-> "idle"]
  /\ loc = [p \in Procs |-> Idle]
  /\ sessions = {}
  /\ analyses = 0
  /\ patterns = <<>>
  /\ ticks = 0

NextDrains ==
  \/ Quiet /\ beforeProvider
  \/ \E p \in Procs : afterProviderStart(p)
  \/ \E p \in Procs : Resume(p)
  \/ Quiet /\ Tick

\* one awaited beforeProvider per invocation slot, then the afterProvider
\* invocations in flight together, their drains interleaved at their awaits
SpecDrains == InitDrains /\ [][NextDrains]_vars

\* a licensed wallet at openai with two queue entries: one that expired
\* twice and was retried once, and one still pending
InitRetry ==
  /\ conc = FALSE /\ tenants = {"a1"} /\ providers = {"openai"}
  /\ preFaults = {} /\ postFaults = {}
  /\ history = FALSE /\ scenario = "retry"
  /\ now = 0
  /\ quotas = [a \in Agents |-> IF a \in tenants
                                THEN [ProQuota EXCEPT !.max_queue_size = QueueCap + 1]
                                ELSE NoQuota]
  /\ configs = InitConfigs
  /\ windows = <<>>
  /\ queue = <<[NewEntry("a1", "openai", Model, 8, 0)
                  EXCEPT !.retry_count = defaultMaxRetries - 1,
                         !.status = "failed", !.error = "Request expired in queue"],
               NewEntry("a1", "openai", Model, defaultPriority, 0)>>
  /\ events = <<>>
  /\ reqs = <<>>
  /\ pc = [p \in Procs |-> "idle"]
  /\ loc = [p \in Procs |-> Idle]
  /\ sessions = {}
  /\ analyses = 0
  /\ patterns = <<>>
  /\ ticks = 0

\* hooks, retry and cancel over entries close to their last retry
SpecRetry == InitRetry /\ [][Next]_vars

InitPriority ==
  /\ conc = FALSE /\ tenants = {"a1"} /\ providers = {Provider}
  /\ preFaults = {} /\ postFaults = {}
  /\ history = FALSE /\ scenario = "priority"
  /\ InitCommon

NextPriority ==
  \/ beforeProvider
  \/ afterProvider
  \/ \E id \in 1..Len(queue), np \in {0, 1, 10, 11} : updatePriority(id, np)
  \/ Tick

\* the hooks with priorities from inside and outside the scale, and
\* updatePriority
SpecPriority == InitPriority /\ [][NextPriority]_vars

InitEnqueue ==
  /\ conc = FALSE /\ tenants = {"a1"} /\ providers = {Provider}
  /\ preFaults = {} /\ postFaults = {}
  /\ history = FALSE /\ scenario = "enqueue"
  /\ InitCommon

NextEnqueue ==
  \/ beforeProvider
  \/ afterProvider
  \/ enqueueCall
  \/ Tick

\* the hooks and direct enqueue calls, over a licence that can lapse
SpecEnqueue == InitEnqueue /\ [][NextEnqueue]_vars

InitPost ==
  /\ conc = FALSE /\ tenants = {"a1"} /\ providers = {Provider}
  /\ preFaults = {} /\ postFaults = {}
  /\ history = TRUE /\ scenario = "post"
  /\ InitCommon

InitStatus ==
  /\ conc = FALSE /\ tenants = {"a1"} /\ providers = {Provider}
  /\ preFaults = {} /\ postFaults = {}
  /\ history = FALSE /\ scenario = "status"
  /\ InitCommon

NextStatus ==
  \/ beforeProvider
  \/ afterProvider
  \/ \E a \in Agents : getStatus(a)
  \/ Tick

\* the hooks and status queries for served and unserved wallets
SpecStatus == InitStatus /\ [][NextStatus]_vars

InitConc ==
  /\ conc = TRUE /\ tenants = {"a1"} /\ providers = {Provider}
  /\ preFaults = {} /\ postFaults = {}
  /\ history = FALSE /\ scenario = ""
  /\ InitCommon

NextConc ==
  \/ \E p \in Procs : beforeProviderStart(p)
  \/ \E p \in Procs : Resume(p)
  \/ Tick

\* two beforeProvider invocations in flight, interleaved at their awaits
SpecConc == InitConc /\ [][NextConc]_vars

InitMulti ==
  /\ conc = FALSE /\ tenants = Agents /\ providers = {Provider}
  /\ preFaults = {} /\ postFaults = {}
  /\ history = FALSE /\ scenario = ""
  /\ InitCommon

NextMulti ==
  \/ beforeProvider
  \/ afterProvider
  \/ Tick

\* two wallets call the hooks in turn, each call awaited
SpecMulti == InitMulti /\ [][NextMulti]_vars

\* awaited hooks, afterProvider called for refused requests as well
SpecPost == InitPost /\ [][NextMulti]_vars

\* an unlicensed wallet at openai or a licensed one at anthropic
InitBurst ==
  /\ conc = FALSE /\ tenants = {"a1"} /\ providers \in {{Provider}, {"openai"}}
  /\ preFaults = {} /\ postFaults = {}
  /\ history = FALSE /\ scenario = "burst"
  /\ InitCommon
  /\ quotas["a1"] = IF providers = {Provider} THEN ProQuota ELSE NoQuota

\* awaited hooks with the time of every admission kept, the clock moving
\* by 100 ms or by a minute
SpecBurst == InitBurst /\ [][NextMulti]_vars

\* a licensed wallet with room for MaxDrainQueue entries whose queue is
\* full of pending entries of distinct priorities, at anthropic or at openai
InitDrain ==
  /\ conc = FALSE /\ tenants = {"a1"} /\ providers \in {{Provider}, {"openai"}}
  /\ preFaults = {} /\ postFaults = {}
  /\ history = FALSE /\ scenario = "drain"
  /\ now = 0
  /\ quotas = [a \in Agents |-> IF a \in tenants
                                THEN [ProQuota EXCEPT !.max_queue_size = MaxDrainQueue]
                                ELSE NoQuota]
  /\ configs = InitConfigs
  /\ windows = <<>>
  /\ queue = [i \in 1..MaxDrainQueue |->
               NewEntry("a1", CHOOSE pr \in providers : TRUE, Model, MaxDrainQueue + 1 - i, 0)]
  /\ events = <<>>
  /\ reqs = <<>>
  /\ pc = [p \in Procs |-> "idle"]
  /\ loc = [p \in Procs |-> Idle]
  /\ sessions = {}
  /\ analyses = 0
  /\ patterns = <<>>
  /\ ticks = 0

\* awaited hooks over a queue that holds more entries than one drain takes
SpecDrain == InitDrain /\ [][NextMulti]_vars

InitPreFault ==
  /\ conc = FALSE /\ tenants = {"a1"} /\ providers = {Provider}
  /\ preFaults = StoreFaults /\ postFaults = {}
  /\ history = FALSE /\ scenario = ""
  /\ InitCommon

\* hooks awaited in turn; one store call may throw in each beforeProvider
SpecPreFault == InitPreFault /\ [][NextMulti]_vars

InitPostFault ==
  /\ conc = FALSE /\ tenants = {"a1"} /\ providers = {Provider}
  /\ preFaults = {} /\ postFaults = StoreFaults
  /\ history = FALSE /\ scenario = ""
  /\ InitCommon

\* hooks awaited in turn; one store call may throw in each afterProvider
SpecPostFault == InitPostFault /\ [][NextMulti]_vars

InitProviders ==
  /\ conc = FALSE /\ tenants = {"a1"} /\ providers = Providers
  /\ preFaults = {} /\ postFaults = {}
  /\ history = FALSE /\ scenario = ""
  /\ InitCommon

\* one wallet calling several providers, each hook awaited
SpecProviders == InitProviders /\ [][NextMulti]_vars

InitOpenai ==
  /\ conc = FALSE /\ tenants = {"a1"} /\ providers = {"openai"}
  /\ preFaults = {} /\ postFaults = {}
  /\ history = FALSE /\ scenario = ""
  /\ InitCommon

\* one wallet calling openai, whose free row has room for more than one
\* request a minute and no day ceiling
SpecOpenai == InitOpenai /\ [][NextMulti]_vars

InitUnknown ==
  /\ conc = FALSE /\ tenants = {"a1"} /\ providers = {UnknownProvider}
  /\ preFaults = {} /\ postFaults = {}
  /\ history = FALSE /\ scenario = ""
  /\ InitCommon

\* one wallet calling a provider the manager has never heard of
SpecUnknown == InitUnknown /\ [][NextMulti]_vars

TypeOK ==
  /\ now \in Nat
  /\ \A p \in Procs : pc[p] = "idle" => loc[p] = Idle

\* ------------------------------------------------------------------ claims
ActiveWindows == {i \in 1..Len(windows) : windows[i].is_active}

\* C1: no over-admit -- in every state reached by hooks called in turn and
\* clock moves, every active window with a request limit has
\* request_count <= limit_requests
C1_NoOverAdmit ==
  \A i \in ActiveWindows :
    windows[i].limit_requests # 0 => windows[i].request_count <= windows[i].limit_requests

\* C2: linearisable admission -- of two beforeProvider invocations that
\* interleave on a minute window with room for one request, at most one is
\* admitted: the minute window they share never counts more than its limit
C2_AtMostOneAdmitted ==
  \A i \in ActiveWindows :
    (windows[i].window_type = "per_minute" /\ windows[i].limit_requests # 0)
      => windows[i].request_count <= windows[i].limit_requests

\* C3: at most one active window per (wallet, provider, model, window type),
\* also under interleaved beforeProvider invocations
C3_OneActiveWindow ==
  \A i, j \in ActiveWindows :
    (/\ windows[i].agent_wallet = windows[j].agent_wallet
     /\ windows[i].provider = windows[j].provider
     /\ windows[i].model = windows[j].model
     /\ windows[i].window_type = windows[j].window_type) => i = j

\* the step is a beforeProvider call / an afterProvider call
PreCallStep == Len(reqs') = Len(reqs) + 1
PostCallStep == \E r \in 1..Len(reqs) : ~reqs[r].posted /\ reqs'[r].posted

\* the pre-call of this step checked window i: the minute window of its
\* wallet always, the hour and day windows when the request was allowed
CheckedByPreCall(i) ==
  /\ PreCallStep
  /\ windows[i].is_active
  /\ windows[i].agent_wallet = reqs'[Len(reqs')].agent_wallet
  /\ \/ windows[i].window_type = "per_minute"
     \/ reqs'[Len(reqs')].outcome = "allowed"

\* C4: rotation correctness -- a check or increment that runs at
\* now >= window_end leaves the stale window deactivated with its counts
\* unchanged (the operation went to a fresh window)
C4_RotationCorrect ==
  [][\A i \in 1..Len(windows) :
       (CheckedByPreCall(i) /\ now >= windows[i].window_end)
         => /\ ~windows'[i].is_active
            /\ windows'[i].request_count = windows[i].request_count]_vars

\* C5: event completeness -- every beforeProvider call appends exactly one
\* event, of type allowed, blocked or queued
C5_OneEventPerPreCall ==
  [][PreCallStep =>
       /\ Len(events') = Len(events) + 1
       /\ events'[Len(events')].event_type \in {"allowed", "blocked", "queued"}
       /\ events'[Len(events')].request_id = Len(reqs')]_vars

\* C6: queue capacity -- once a wallet has a queue, its pending entries never
\* outnumber its max_queue_size, whatever drain, re-pend, retry or cancel
\* steps followed the enqueue
C6_QueueCapacity ==
  \A a \in Agents :
    quotas[a].exists =>
      Cardinality({i \in 1..Len(queue) :
                     queue[i].agent_wallet = a /\ queue[i].status = "pending"})
        <= quotas[a].max_queue_size

\* entry i is ahead of entry j: higher priority, or same priority and not
\* queued later
Ahead(i, j) ==
  \/ queue[i].priority > queue[j].priority
  \/ queue[i].priority = queue[j].priority /\ queue[i].queued_at <= queue[j].queued_at

Expired(i) == now - queue[i].queued_at > maxQueueAge

\* wallet a's pending entries that are not expired
PendingUnexpired(a) ==
  {i \in 1..Len(queue) :
     queue[i].agent_wallet = a /\ queue[i].status = "pending" /\ ~Expired(i)}

\* once the step has added its token counts, wallet a's minute window has
\* capacity: it is past its end, or below both of its limits
MinuteHasCapacity(a) ==
  \A w \in 1..Len(windows') :
    (/\ windows'[w].is_active
     /\ windows'[w].agent_wallet = a
     /\ windows'[w].window_type = "per_minute")
      => \/ now > windows'[w].window_end
         \/ ~checkWindowLimitDetailed(Snapshot(windows', w)).exceeded

\* C8: opportunistic drain -- an afterProvider call for an admitted request
\* of a pro wallet that has a pending, unexpired entry whose minute window
\* has capacity completes at least one such entry before it returns
C8_OpportunisticDrain ==
  [][\A r \in 1..Len(reqs) :
       (/\ ~reqs[r].posted /\ reqs'[r].posted /\ reqs[r].decision
        /\ checkQuotaAvailable(quotas, reqs[r].agent_wallet, now).tier = "pro"
        /\ PendingUnexpired(reqs[r].agent_wallet) # {}
        /\ MinuteHasCapacity(reqs[r].agent_wallet))
         => \E i \in PendingUnexpired(reqs[r].agent_wallet) :
              queue'[i].status = "completed"]_vars

\* the minute window of entry j's key is full after the step
MinuteFullAfter(j) ==
  \E w \in 1..Len(windows') :
    /\ windows'[w].is_active
    /\ windows'[w].agent_wallet = queue[j].agent_wallet
    /\ windows'[w].window_type = "per_minute"
    /\ \/ windows'[w].request_count >= windows'[w].limit_requests
       \/ windows'[w].token_count >= windows'[w].limit_tokens

C10_FreeHasNoEntries ==
  \A a \in Agents :
    checkQuotaAvailable(quotas, a, now).tier = "free"
      => \A i \in 1..Len(queue) : queue[i].agent_wallet # a

\* what the windows of wallet a and window type wt hold in all, over the
\* rows in ws, in the column named field
RECURSIVE Total(_, _, _, _)
Total(ws, a, wt, field) ==
  IF ws = <<>> THEN 0
  ELSE (IF Head(ws).agent_wallet = a /\ Head(ws).window_type = wt
        THEN Head(ws)[field] ELSE 0) + Total(Tail(ws), a, wt, field)

\* the queue entries of wallet a the step completed
CompletedByStep(a) ==
  {i \in 1..Len(queue) :
     /\ queue[i].agent_wallet = a
     /\ queue[i].status # "completed" /\ queue'[i].status = "completed"}

\* C11: exact accounting -- an admitting beforeProvider adds one request and
\* no tokens to each window type; the afterProvider of an admitted request
\* adds its T tokens once to each window type and no request of its own (the
\* only requests it counts are the queue entries it admits)
C11_ExactAccounting ==
  [][/\ (PreCallStep /\ reqs'[Len(reqs')].outcome = "allowed") =>
          \A k \in 1..3 :
            LET a == reqs'[Len(reqs')].agent_wallet
            IN /\ Total(windows', a, windowTypes[k], "request_count")
                    = Total(windows, a, windowTypes[k], "request_count") + 1
               /\ Total(windows', a, windowTypes[k], "token_count")
                    = Total(windows, a, windowTypes[k], "token_count")
     /\ \A r \in 1..Len(reqs) :
          (~reqs[r].posted /\ reqs'[r].posted) =>
            \E T \in TokenInputs : \A k \in 1..3 :
              LET a == reqs[r].agent_wallet
              IN /\ Total(windows', a, windowTypes[k], "token_count")
                      = Total(windows, a, windowTypes[k], "token_count") + T
                 /\ Total(windows', a, windowTypes[k], "request_count")
                      = Total(windows, a, windowTypes[k], "request_count")
                          + Cardinality(CompletedByStep(a))]_vars

\* a request was admitted and its afterProvider reported 4 tokens: every
\* window type counts one request and 4 tokens
C11_Witness ==
  /\ \E r \in 1..Len(reqs) : reqs[r].posted
  /\ \A k \in 1..3 :
       /\ Total(windows, "a1", windowTypes[k], "request_count") = 1
       /\ Total(windows, "a1", windowTypes[k], "token_count") = 4

\* C12: fail closed -- a beforeProvider call during which a store call threw
\* does not admit its request
C12_FailClosed ==
  \A r \in 1..Len(reqs) : reqs[r].failed # "" => reqs[r].outcome # "allowed"

Exhausted(a, provider, wt) ==
  \E i \in ActiveWindows :
    /\ windows[i].agent_wallet = a /\ windows[i].provider = provider
    /\ windows[i].window_type = wt
    /\ ~(now > windows[i].window_end)
    /\ \/ windows[i].limit_requests # 0
          /\ windows[i].request_count >= windows[i].limit_requests
       \/ windows[i].limit_tokens # 0
          /\ windows[i].token_count >= windows[i].limit_tokens

\* C14: multi-horizon enforcement -- a beforeProvider call admits its request
\* exactly when none of the minute, hour and day windows is exhausted, and a
\* blocked or queued event names the first exhausted one in that order
C14_MultiHorizon ==
  [][PreCallStep =>
       LET r == reqs'[Len(reqs')]
           ex == {k \in 1..3 : Exhausted(r.agent_wallet, r.provider, windowTypes[k])}
       IN /\ r.outcome = "allowed" <=> ex = {}
          /\ r.outcome \in {"blocked", "queued"} =>
               /\ Len(events') = Len(events) + 1
               /\ \E k \in ex :
                    /\ \A j \in ex : k <= j
                    /\ events'[Len(events')].window_type = windowTypes[k]]_vars

\* a request was blocked on the day window while the minute window had room
C14_Witness ==
  /\ \E r \in 1..Len(reqs) : reqs[r].outcome = "allowed"
  /\ \E e \in 1..Len(events) :
       events[e].event_type = "blocked" /\ events[e].window_type = "per_day"

\* the wallet holds no licence that is still paid for
FreeTenant(a) == ~(quotas[a].tier = "pro" /\ quotas[a].paid_until > now)

\* the active minute windows of (a, provider) that are still current
CurrentMinute(a, provider) ==
  {i \in ActiveWindows :
     /\ windows[i].agent_wallet = a /\ windows[i].provider = provider
     /\ windows[i].window_type = "per_minute"
     /\ ~(now > windows[i].window_end)}

\* C15: per-minute block -- for a free wallet whose hour and day windows have
\* room, a beforeProvider call is admitted while the current minute window
\* counts fewer than its L requests, and the call that finds it at L is
\* blocked with the event (blocked, per_minute, current = L, limit = L)
C15_PerMinuteBlock ==
  [][PreCallStep =>
       LET r == reqs'[Len(reqs')]
           a == r.agent_wallet
       IN (/\ FreeTenant(a)
           /\ ~Exhausted(a, r.provider, "per_hour")
           /\ ~Exhausted(a, r.provider, "per_day")) =>
            /\ CurrentMinute(a, r.provider) = {} => r.outcome = "allowed"
            /\ \A i \in CurrentMinute(a, r.provider) :
                 LET L == windows[i].limit_requests
                 IN L # 0 =>
                   /\ (/\ windows[i].request_count < L
                       /\ ~Exhausted(a, r.provider, "per_minute")) => r.outcome = "allowed"
                   /\ windows[i].request_count = L =>
                        /\ r.outcome = "blocked"
                        /\ events' = Append(events,
                             [agent_wallet |-> a, provider |-> r.provider, model |-> Model,
                              event_type |-> "blocked", window_type |-> "per_minute",
                              current_count |-> L, limit_value |-> L,
                              request_id |-> Len(reqs')])]_vars

\* a free wallet made L + 1 calls in one minute window: the first L were
\* allowed and the last was blocked at current = limit = L
C15_Witness ==
  /\ FreeTenant("a1")
  /\ Len(reqs) = RpmLimit + 2
  /\ \A r \in 1..(RpmLimit + 1) : reqs[r].outcome = "allowed"
  /\ reqs[RpmLimit + 2].outcome = "blocked"
  /\ \E e \in 1..Len(events) :
       /\ events[e].event_type = "blocked" /\ events[e].window_type = "per_minute"
       /\ events[e].current_count = RpmLimit + 1 /\ events[e].limit_value = RpmLimit + 1
       /\ events[e].request_id = RpmLimit + 2

\* pending queue entries of wallet a
Pending(a) ==
  {i \in 1..Len(queue) : queue[i].agent_wallet = a /\ queue[i].status = "pending"}

\* C16: queue full -- a beforeProvider call of a licensed wallet that may
\* queue, has max_queue_size pending entries and meets an exhausted window is
\* refused with the queue-full error; the queue and the request and token
\* counts of every window type stay as they were
C16_QueueFull ==
  [][PreCallStep =>
       LET r == reqs'[Len(reqs')]
           a == r.agent_wallet
       IN (/\ ~FreeTenant(a) /\ quotas[a].can_queue
           /\ Cardinality(Pending(a)) = quotas[a].max_queue_size
           /\ \E k \in 1..3 : Exhausted(a, r.provider, windowTypes[k])) =>
            /\ r.outcome = "queue_full"
            /\ queue' = queue
            /\ \A k \in 1..3 :
                 /\ Total(windows', a, windowTypes[k], "request_count")
                      = Total(windows, a, windowTypes[k], "request_count")
                 /\ Total(windows', a, windowTypes[k], "token_count")
                      = Total(windows, a, windowTypes[k], "token_count")]_vars

\* a licensed wallet with a full queue was refused with the queue-full error
C16_Witness ==
  /\ ~FreeTenant("a1")
  /\ Cardinality(Pending("a1")) = QueueCap
  /\ \E r \in 1..Len(reqs) : reqs[r].outcome = "queue_full"

\* active, current windows of (a, provider) whose token count has reached
\* their token ceiling
TokenExhausted(a, provider) ==
  {i \in ActiveWindows :
     /\ windows[i].agent_wallet = a /\ windows[i].provider = provider
     /\ ~(now > windows[i].window_end)
     /\ windows[i].limit_tokens # 0
     /\ windows[i].token_count >= windows[i].limit_tokens}

\* C17: token-limit enforcement -- a beforeProvider call made while a current
\* window of its (wallet, provider, model) has token_count >= limit_tokens
\* is not admitted, whatever the window's request count
C17_TokenLimit ==
  [][PreCallStep =>
       LET r == reqs'[Len(reqs')]
       IN TokenExhausted(r.agent_wallet, r.provider) # {} =>
            r.outcome \in {"blocked", "queued", "queue_full"}]_vars

\* a call was blocked on a minute window that counted fewer requests than
\* its ceiling and whose tokens had reached theirs
C17_Witness ==
  /\ reqs # <<>> /\ reqs[Len(reqs)].outcome = "blocked"
  /\ \E i \in TokenExhausted("a1", "openai") :
       /\ windows[i].window_type = "per_minute"
       /\ windows[i].request_count < windows[i].limit_requests
  /\ events[Len(events)].event_type = "blocked"
  /\ events[Len(events)].current_count < events[Len(events)].limit_value

\* C18: token quota never exceeded -- no active window with a token ceiling
\* counts more tokens than that ceiling
C18_TokenQuotaNeverExceeded ==
  \A i \in ActiveWindows :
    windows[i].limit_tokens # 0 => windows[i].token_count <= windows[i].limit_tokens

\* requests counted by wallet a's minute windows that start at t, whatever
\* their provider
RECURSIVE MinuteRequests(_, _, _)
MinuteRequests(ws, a, t) ==
  IF ws = <<>> THEN 0
  ELSE (IF /\ Head(ws).agent_wallet = a /\ Head(ws).window_type = "per_minute"
           /\ Head(ws).window_start = t
        THEN Head(ws).request_count ELSE 0) + MinuteRequests(Tail(ws), a, t)

\* C19: free-tier shared allowance -- a wallet that never held a licence is
\* admitted at most the shared allowance of requests in one minute window,
\* counted over all providers together
C19_SharedAllowance ==
  \A a \in Agents : \A i \in 1..Len(windows) :
    quotas[a].tier # "pro" =>
      MinuteRequests(windows, a, windows[i].window_start) <= SharedRpmLimit

\* the provider has a rate_limit_configs row or an entry in the default table
KnownProvider(provider) ==
  \/ provider \in DefaultProviders
  \/ \E c \in configs : c.provider = provider

\* C20: invalid input -- a beforeProvider call naming a provider that is
\* neither configured nor in the default table is refused with the
\* invalid-input error, and no window exists for that provider
C20_UnknownProviderRefused ==
  /\ \A r \in 1..Len(reqs) :
       ~KnownProvider(reqs[r].provider) => reqs[r].outcome = "invalid_input"
  /\ \A i \in 1..Len(windows) : KnownProvider(windows[i].provider)

\* C20 as the code has it: a provider that is neither configured nor in the
\* default table is served with anthropic's free defaults (50 requests and
\* 40000 tokens a minute, 1000 requests and 300000 tokens a day, no hour
\* ceiling): its windows carry those ceilings and a call is admitted while
\* they have room
C20_UnknownProviderDefaults ==
  /\ \A i \in 1..Len(windows) :
       ~KnownProvider(windows[i].provider) =>
         /\ windows[i].window_type = "per_minute" =>
              windows[i].limit_requests = 50 /\ windows[i].limit_tokens = 40000
         /\ windows[i].window_type = "per_hour" =>
              windows[i].limit_requests = 0 /\ windows[i].limit_tokens = 0
         /\ windows[i].window_type = "per_day" =>
              windows[i].limit_requests = 1000 /\ windows[i].limit_tokens = 300000
  /\ \A r \in 1..Len(reqs) :
       (~KnownProvider(reqs[r].provider) /\ Len(reqs) < 50) => reqs[r].outcome = "allowed"

\* a call naming the unknown provider was admitted and has its three windows
C20_Witness ==
  /\ \E r \in 1..Len(reqs) :
       reqs[r].provider = UnknownProvider /\ reqs[r].outcome = "allowed"
  /\ \A k \in 1..3 : \E i \in ActiveWindows :
       /\ windows[i].provider = UnknownProvider
       /\ windows[i].window_type = windowTypes[k]
       /\ windows[i].request_count >= 1

\* C21: cancellation -- a cancel step moves a pending entry to failed with
\* the reason 'Cancelled by user', and an entry that was cancelled is never
\* completed afterwards
C21_CancelledNeverAdmitted ==
  /\ \A i \in 1..Len(queue) : queue[i].cancelled => queue[i].status # "completed"
  /\ \A i \in 1..Len(queue) :
       (queue[i].status = "failed" /\ queue[i].error = "Cancelled by user")
         => queue[i].cancelled

\* the stored tier of wallet a is pro but its paid_until is absent or not
\* later than now
Lapsed(a) ==
  /\ quotas[a].tier = "pro"
  /\ quotas[a].paid_until = 0 \/ ~(quotas[a].paid_until > now)

\* C22: licence expiry -- for a wallet whose licence has lapsed, a
\* beforeProvider call that meets an exhausted window is blocked and queues
\* nothing, an afterProvider call leaves the queue alone, and sessionEnd runs
\* no pattern analysis
C22_LapsedIsFree ==
  [][/\ PreCallStep =>
          LET r == reqs'[Len(reqs')]
          IN (/\ Lapsed(r.agent_wallet)
              /\ \E k \in 1..3 : Exhausted(r.agent_wallet, r.provider, windowTypes[k]))
               => r.outcome = "blocked" /\ queue' = queue
     /\ \A r \in 1..Len(reqs) :
          (~reqs[r].posted /\ reqs'[r].posted /\ Lapsed(reqs[r].agent_wallet))
            => queue' = queue
     /\ \A a \in Agents :
          (a \in sessions /\ a \notin sessions' /\ Lapsed(a)) => analyses' = analyses]_vars

\* after the licence lapsed, with an entry still pending from before: a call
\* was admitted and its afterProvider drained nothing, the next call was
\* blocked, and the session ended without an analysis
C22_Witness ==
  /\ Lapsed("a1")
  /\ Len(reqs) = 4
  /\ reqs[2].outcome = "queued" /\ queue[1].status = "pending"
  /\ reqs[3].outcome = "allowed" /\ reqs[3].posted
  /\ reqs[4].outcome = "blocked"
  /\ sessions = {} /\ analyses = 0

\* C23: getStatus is a pure read -- a getStatus call for any wallet leaves
\* the quota rows, windows, queue entries and events as they were
C23_GetStatusPureRead ==
  [][(\E a \in Agents : getStatus(a)) =>
       UNCHANGED <<quotas, windows, queue, events>>]_vars

\* the admissions of wallet a at provider pr stamped within [x, x + 60 s]:
\* pre-calls that ended allowed and queue entries the drain completed
AdmittedWithin(a, pr, x) ==
  Cardinality({r \in 1..Len(reqs) :
                 /\ reqs[r].agent_wallet = a /\ reqs[r].provider = pr
                 /\ reqs[r].outcome = "allowed"
                 /\ reqs[r].at >= x /\ reqs[r].at <= x + per_minute})
  + Cardinality({i \in 1..Len(queue) :
                   /\ queue[i].agent_wallet = a /\ queue[i].provider = pr
                   /\ queue[i].status = "completed"
                   /\ queue[i].processed_at >= x /\ queue[i].processed_at <= x + per_minute})

\* the minute request-limit the windows of (a, pr) were created with
MinuteLimits(a, pr) ==
  {windows[i].limit_requests : i \in {j \in 1..Len(windows) :
      /\ windows[j].agent_wallet = a /\ windows[j].provider = pr
      /\ windows[j].window_type = "per_minute"}}

\* the instants at which an interval can begin with an admission; an
\* interval that begins elsewhere holds no more than the one that begins at
\* its first admission
Stamps ==
  {reqs[r].at : r \in 1..Len(reqs)} \cup {queue[i].processed_at : i \in 1..Len(queue)}

\* C24: for one wallet and provider with minute request-limit L, the
\* requests admitted within any rolling 60-second interval number at most 2*L
C24_BurstBound ==
  \A a \in Agents, pr \in Providers :
    \A L \in MinuteLimits(a, pr) :
      L # 0 => \A x \in Stamps : AdmittedWithin(a, pr, x) <= 2 * L

\* more than L admissions within one minute, across a window's end
C24_Witness ==
  /\ MinuteLimits("a1", "openai") = {RpmLimit + 1}
  /\ \E x \in Stamps : AdmittedWithin("a1", "openai", x) > RpmLimit + 1
  /\ Cardinality({i \in 1..Len(windows) :
                    /\ windows[i].agent_wallet = "a1" /\ windows[i].provider = "openai"
                    /\ windows[i].window_type = "per_minute"}) = 2

\* C25: the post-call adds its tokens to the current window -- no step
\* raises the token count of a window whose end has passed
C25_TokensFollowRotation ==
  [][\A i \in 1..Len(windows) :
       windows[i].window_end < now => windows'[i].token_count = windows[i].token_count]_vars

Licensed(a) == quotas[a].tier = "pro" /\ quotas[a].can_queue /\ ~Lapsed(a)

\* the entries of wallet a a drain can take
Drainable(a) == PendingUnexpired(a) \cap Candidates(queue)

\* after the step the minute window of (a, pr) is current and refuses a request
MinuteRefuses(ws, a, pr, t) ==
  \E i \in 1..Len(ws) :
    /\ ws[i].agent_wallet = a /\ ws[i].provider = pr
    /\ ws[i].window_type = "per_minute" /\ ws[i].is_active
    /\ ~(t > ws[i].window_end)
    /\ \/ ws[i].limit_requests # 0 /\ ws[i].request_count >= ws[i].limit_requests
       \/ ws[i].limit_tokens # 0 /\ ws[i].token_count >= ws[i].limit_tokens

\* C26: the drain of one afterProvider completes at most 5 entries; every
\* entry it completes adds one request to each of the three window types and
\* is completed only while the minute window has room; it stops short of the
\* entries it could take only when the minute window refuses the next one,
\* and it leaves no entry in processing
C26_DrainStep ==
  [][\A r \in 1..Len(reqs) :
       (~reqs[r].posted /\ reqs'[r].posted) =>
         LET a == reqs[r].agent_wallet
             pr == reqs[r].provider
             done == CompletedByStep(a)
         IN /\ Cardinality(done) <= DrainBound
            /\ \A k \in 1..3 :
                 Total(windows', a, windowTypes[k], "request_count")
                   = Total(windows, a, windowTypes[k], "request_count") + Cardinality(done)
            /\ \A i \in 1..Len(queue) :
                 queue'[i].status = "processing" => queue[i].status = "processing"
            /\ done # {} =>
                 \A i \in 1..Len(windows') :
                   (/\ windows'[i].agent_wallet = a /\ windows'[i].window_type = "per_minute"
                    /\ windows'[i].is_active /\ windows'[i].limit_requests # 0)
                     => windows'[i].request_count <= windows'[i].limit_requests
            /\ (/\ reqs[r].decision /\ Licensed(a)
                /\ Cardinality(done) < Min(DrainBound, Cardinality(Drainable(a))))
                 => MinuteRefuses(windows', a, pr, now)]_vars

\* one afterProvider has completed 5 of the entries and left the others pending
C26_Witness ==
  /\ Cardinality({r \in 1..Len(reqs) : reqs[r].posted}) = 1
  /\ Cardinality({i \in 1..Len(queue) : queue[i].status = "completed"}) = DrainBound
  /\ Cardinality(Pending("a1")) = Len(queue) - DrainBound
  /\ Len(queue) > DrainBound

\* a drain that stopped at a full minute window after it completed an entry
C26_WitnessStop ==
  /\ Cardinality({r \in 1..Len(reqs) : reqs[r].posted}) = 1
  /\ Cardinality({i \in 1..Len(queue) : queue[i].status = "completed"}) = 1
  /\ Cardinality(Pending("a1")) = Len(queue) - 1
  /\ MinuteRefuses(windows, "a1", Provider, now)

\* C27: an afterProvider made for one wallet changes neither the status of
\* a queue entry of another wallet nor any window of another wallet
C27_DrainIsolation ==
  [][\A r \in 1..Len(reqs) :
       (~reqs[r].posted /\ reqs'[r].posted) =>
         /\ \A i \in 1..Len(queue) :
              queue[i].agent_wallet # reqs[r].agent_wallet
                => queue'[i].status = queue[i].status
         /\ \A i \in 1..Len(windows') :
              windows'[i].agent_wallet # reqs[r].agent_wallet
                => i <= Len(windows) /\ windows'[i] = windows[i]]_vars

\* C28: beforeProvider is all-or-nothing -- a call that does not end
\* allowed (blocked, queued, queue full, or failed on a store error) has
\* raised no window's request count and has appended no allowed event
C28_AllOrNothing ==
  [][PreCallStep =>
       LET r == reqs'[Len(reqs')]
       IN r.outcome # "allowed" =>
            /\ \A k \in 1..3 :
                 Total(windows', r.agent_wallet, windowTypes[k], "request_count")
                   = Total(windows, r.agent_wallet, windowTypes[k], "request_count")
            /\ \A e \in (Len(events) + 1)..Len(events') :
                 events'[e].event_type # "allowed"]_vars

\* C29: completed is terminal -- no step takes a completed queue entry to
\* another status
C29_CompletedIsTerminal ==
  [][\A i \in 1..Len(queue) :
       queue[i].status = "completed" => queue'[i].status = "completed"]_vars

\* C30: processing is transient -- while no hook is running no queue entry
\* is in processing, also after a store operation failed inside the drain
C30_ProcessingIsTransient ==
  Quiet => \A i \in 1..Len(queue) : queue[i].status # "processing"

\* the drains in flight that hold an entry dequeue returned to them
Holding(p) ==
  /\ loc[p].caller = "pq" /\ loc[p].qid # 0
  /\ pc[p] \notin {"idle", "dq_again"}

\* C31: atomic dequeue -- two drains in flight never hold the same queue
\* entry, and an entry is completed only by the one drain that holds it,
\* out of processing: no entry is completed twice
C31_AtomicDequeue ==
  [][/\ \A p, q \in Procs :
          (p # q /\ Holding(p)' /\ Holding(q)') => loc'[p].qid # loc'[q].qid
     /\ \A i \in 1..Len(queue) :
          (queue[i].status # "completed" /\ queue'[i].status = "completed") =>
            /\ queue[i].status = "processing"
            /\ Cardinality({p \in Procs : Holding(p) /\ loc[p].qid = i}) = 1]_vars

\* two drains in flight, each holding an entry of its own
C31_Witness ==
  /\ Holding(1) /\ Holding(2)
  /\ queue[loc[1].qid].status = "processing"
  /\ queue[loc[2].qid].status = "processing"
  /\ loc[1].qid # loc[2].qid

Exhausted32(i) == queue[i].retry_count >= queue[i].max_retries

\* C32: retry exhaustion -- an entry whose retry count has reached its
\* max_retries is taken by no drain (it is never completed or left in
\* processing) and is not moved back to pending
C32_RetryExhaustion ==
  [][\A i \in 1..Len(queue) :
       Exhausted32(i) =>
         /\ queue'[i].status \notin {"processing", "completed"}
         /\ queue'[i].status = "pending" => queue[i].status = "pending"
         /\ queue'[i].retry_count = queue[i].retry_count]_vars

\* the first entry used its last retry in one drain, and a second drain
\* passed it over and took the entry behind it
C32_Witness ==
  /\ queue[1].retry_count = queue[1].max_retries
  /\ queue[1].status = "failed"
  /\ queue[2].status = "failed" /\ queue[2].retry_count = 2
  /\ Cardinality({r \in 1..Len(reqs) : reqs[r].posted}) = 2

\* C33: re-pend keeps the retry count -- an entry that is pending before
\* and after an afterProvider, the drain having taken it and put it back or
\* not, keeps its retry_count and priority and stays a dequeue candidate
C33_RependKeepsRetryCount ==
  [][PostCallStep =>
       \A i \in 1..Len(queue) :
         (queue[i].status = "pending" /\ queue'[i].status = "pending") =>
           /\ queue'[i].retry_count = queue[i].retry_count
           /\ queue'[i].priority = queue[i].priority
           /\ queue[i].retry_count < queue[i].max_retries
                => queue'[i].retry_count < queue'[i].max_retries]_vars

\* a drain completed the first entry, took the second, found the minute
\* window full and put it back
C33_Witness ==
  /\ Cardinality({r \in 1..Len(reqs) : reqs[r].posted}) = 1
  /\ queue[1].status = "completed"
  /\ \A i \in 2..Len(queue) : queue[i].status = "pending" /\ queue[i].retry_count = 0
  /\ MinuteRefuses(windows, "a1", Provider, now)
  /\ now > 0

\* C34: priority range -- every stored queue entry has a priority between
\* 1 and 10
C34_PriorityRange ==
  \A i \in 1..Len(queue) : queue[i].priority \in 1..10

\* C35: queue disabled -- an enqueue call for a wallet without the
\* may-queue capability (free, or licence lapsed) ends with the
\* queue-disabled error and adds no entry, and no step adds an entry for
\* such a wallet
C35_QueueDisabled ==
  [][/\ PreCallStep =>
          LET r == reqs'[Len(reqs')]
          IN (r.op = "enqueue" /\ ~Licensed(r.agent_wallet))
               => r.outcome = "queue_disabled" /\ queue' = queue
     /\ \A i \in (Len(queue) + 1)..Len(queue') : Licensed(queue'[i].agent_wallet)]_vars

\* an enqueue call was refused after the licence of a wallet with a queued
\* entry had lapsed
C35_Witness ==
  /\ Len(reqs) = 2 /\ Len(queue) = 1
  /\ reqs[1].op = "enqueue" /\ reqs[1].outcome = "enqueued"
  /\ reqs[2].op = "enqueue" /\ reqs[2].outcome = "queue_disabled"
  /\ Lapsed("a1")

\* C36: an afterProvider for a request without an allowed decision changes
\* no window and no queue entry (it neither counts tokens nor drains), and
\* writes no event and no quota row
C36_UndecidedPostCall ==
  [][\A r \in 1..Len(reqs) :
       (~reqs[r].posted /\ reqs'[r].posted /\ ~reqs[r].decision) =>
         /\ windows' = windows
         /\ queue' = queue
         /\ events' = events
         /\ quotas' = quotas]_vars

\* afterProvider was called for the queued request while its entry waited
\* behind a minute window that had expired: a drain would have admitted it
C36_Witness ==
  /\ Len(reqs) = 2
  /\ reqs[2].outcome = "queued" /\ reqs[2].posted /\ ~reqs[1].posted
  /\ queue[1].status = "pending"
  /\ Licensed("a1")
  /\ \A i \in ActiveWindows :
       windows[i].window_type = "per_minute" => now > windows[i].window_end

\* C37: a beforeProvider that ends blocked or queued raises no window's
\* request or token count (a window it creates starts at zero), attaches no
\* allowed decision and adds nothing to the session roster
C37_RefusedPreCallFrame ==
  [][PreCallStep =>
       LET r == reqs'[Len(reqs')]
       IN r.outcome \in {"blocked", "queued"} =>
            /\ \A i \in 1..Len(windows) :
                 /\ windows'[i].request_count = windows[i].request_count
                 /\ windows'[i].token_count = windows[i].token_count
            /\ \A i \in (Len(windows) + 1)..Len(windows') :
                 windows'[i].request_count = 0 /\ windows'[i].token_count = 0
            /\ ~r.decision
            /\ sessions' = sessions]_vars

\* after the session had ended a request was queued: the roster is still
\* empty and the windows count the one admitted request
C37_Witness ==
  /\ Len(reqs) = 2
  /\ reqs[1].outcome = "allowed" /\ reqs[2].outcome = "queued"
  /\ ~reqs[2].decision
  /\ sessions = {}
  /\ \A i \in ActiveWindows : windows[i].request_count = 1

\* C38: a sessionEnd, with the pattern analysis it may run, leaves every
\* window, every queue entry, the event log, the limit configuration and the
\* quota rows as they were; it only removes the session from the roster and
\* adds stored patterns
SessionEndStep == \E a \in sessions : a \notin sessions'

C40_OnePatternPerKind ==
  \A i, j \in 1..Len(patterns) :
    (/\ patterns[i].agent_wallet = patterns[j].agent_wallet
     /\ patterns[i].pattern_type = patterns[j].pattern_type) => i = j

\* two analyses of the same wallet each found its usage bursty, and two burst
\* patterns are stored for it under different pattern ids
C40_DuplicatePattern ==
  /\ analyses = 2
  /\ Len(patterns) = 2
  /\ patterns[1].agent_wallet = "a1" /\ patterns[2].agent_wallet = "a1"
  /\ patterns[1].pattern_type = "burst" /\ patterns[2].pattern_type = "burst"
  /\ patterns[1].pattern_id # patterns[2].pattern_id

\* C39: a window created for (wallet, provider, model) carries the ceilings
\* of the (provider, model, tier) row when there is one, else those of the
\* (provider, NULL, tier) row when there is one, else those of the built-in
\* table
LimitsOf(w, lim) ==
  /\ w.limit_requests = getLimitForWindowType(lim, w.window_type, "requests")
  /\ w.limit_tokens = getLimitForWindowType(lim, w.window_type, "tokens")

C39_LimitPrecedence ==
  [][\A i \in (Len(windows) + 1)..Len(windows') :
       LET w == windows'[i]
           tier == checkQuotaAvailable(quotas', w.agent_wallet, now).tier
           exact == {c \in configs : /\ c.provider = w.provider /\ c.model = w.model
                                     /\ c.tier = tier}
           wide == {c \in configs : /\ c.provider = w.provider /\ c.model = NullModel
                                    /\ c.tier = tier}
       IN /\ exact # {} => \E c \in exact : LimitsOf(w, c.lim)
          /\ (exact = {} /\ wide # {}) => \E c \in wide : LimitsOf(w, c.lim)
          /\ (exact = {} /\ wide = {}) => LimitsOf(w, getDefaultLimits(w.provider, tier))]_vars

\* with rows of the provider and rows of the model both configured, the
\* licensed wallet's minute window carries the ceilings of the model's row
C39_Witness ==
  /\ configs = InitConfigs \cup ExactConfigs
  /\ quotas["a1"].tier = "pro"
  /\ \E i \in ActiveWindows :
       /\ windows[i].window_type = "per_minute" /\ windows[i].model = Model
       /\ windows[i].limit_requests = RpmLimit + 1
       /\ windows[i].limit_tokens = TpmLimit + 1
       /\ windows[i].request_count = 1

====
